---- MODULE Spec2Model ----
(***************************************************************************)
(* Batch import of zotero-keeper: the two batch entry points               *)
(*   batch_import_from_pubmed  (infrastructure/mcp/batch_tools.py)         *)
(*   import_articles           (infrastructure/mcp/unified_import_tools.py)*)
(* the report they fill, BatchImportResult                                 *)
(* (domain/entities/batch_result.py), and the duplicate search             *)
(*   _find_duplicates          (infrastructure/mcp/smart_tools.py).        *)
(*                                                                         *)
(* Spec is one run of one tool, SpecAddItem the report alone, SpecRace two *)
(* runs of batch_import_from_pubmed on one library, SpecFindDuplicates one *)
(* duplicate search.                                                       *)
(*                                                                         *)
(* The arguments of a run are fixed by Init; what the collaborators answer *)
(* (the collections snapshot, the library's items, the PubMed response, a  *)
(* call raising) is chosen when the call is made.  Strings that the code   *)
(* lower-cases, strips or tests with isdigit are sequences of              *)
(* one-character strings, so that these conversions are computed and not   *)
(* assumed.                                                                *)
(***************************************************************************)
EXTENDS Integers, Sequences, FiniteSets, TLC

VARIABLES
    tool,                     \* "batch" | "unified" | "result" (add_item alone)
    mapper,                   \* what the name map_pubmed_to_zotero is bound to
    batch_available,          \* BATCH_IMPORT_AVAILABLE
    include_citation_metrics, \* argument of batch_import_from_pubmed
    citation_metrics,         \* step 2.5: "none" | "raised" | "fetched"
    pc,                       \* position of the run
    collection_name,          \* argument
    collection_key,           \* argument
    skip_duplicates,          \* argument
    pmids,                    \* argument of batch_import_from_pubmed (tokens)
    pmid_list,                \* _parse_pmids(pmids)
    collections,              \* the snapshot read by list_collections()
    snapshot_read,            \* the snapshot was read successfully in this run
    validated_collection_key, \* validated_collection_key / target_key
    collection_info,          \* collection_info["resolved_from"] or the fallback
    library,                  \* items of the library when the run checks it
    articles,                 \* fetched articles / the articles argument
    existing_identifiers,     \* result of the duplicate check
    idx,                      \* index of the per-record loop
    items_to_save,            \* write buffer
    result,                   \* BatchImportResult / the result dict
    writes,                   \* every call of the external write, in order
    ret,                      \* the value returned by the run
    runs,                     \* the runs racing on one library, each its locals
    candidate,                \* the item a duplicate search is made for
    duplicates,               \* the list _find_duplicates returns
    lookups,                  \* the calls of a duplicate search to the library
    limit,                    \* argument `limit` of a duplicate search
    ctx,                      \* interactive_save: the context it can elicit with
    options_text,             \* the numbered options shown to the user
    key_to_num,               \* the dict from collection key to option number
    choice,                   \* what the user entered at the collection prompt
    target_collection_key     \* the key the choice was turned into

vars == <<tool, mapper, batch_available, include_citation_metrics,
          citation_metrics, pc, collection_name, collection_key,
          skip_duplicates, pmids, pmid_list, collections, snapshot_read,
          validated_collection_key, collection_info, library, articles,
          existing_identifiers, idx, items_to_save, result, writes, ret, runs,
          candidate, duplicates, lookups, limit, ctx, options_text,
          key_to_num, choice, target_collection_key>>

\* The variables of the prompts of interactive_save.
prompt_vars == <<ctx, options_text, key_to_num, choice, target_collection_key>>

----------------------------------------------------------------------------
(* Bounds of the model *)

MaxRecs == 2
MaxCols == 2
MaxLib == 1
MaxAdds == 4

----------------------------------------------------------------------------
(* Strings as sequences of characters *)

\* Python's None; a value of the same shape as a string so that it compares.
NoneV == <<"None">>

\* `if x:` on a str-or-None value.
Truthy(s) == s # NoneV /\ s # <<>>

LowerChar(c) ==
    CASE c = "A" -> "a"
      [] c = "B" -> "b"
      [] c = "X" -> "x"
      [] c = "Y" -> "y"
      [] OTHER -> c

\* str.lower()
Lower(s) == [k \in 1..Len(s) |-> LowerChar(s[k])]

RECURSIVE LStrip(_)
LStrip(s) == IF s # <<>> /\ Head(s) = " " THEN LStrip(Tail(s)) ELSE s

RECURSIVE RStrip(_)
RStrip(s) ==
    IF s # <<>> /\ s[Len(s)] = " " THEN RStrip(SubSeq(s, 1, Len(s) - 1)) ELSE s

\* str.strip()
Strip(s) == RStrip(LStrip(s))

\* str.isdigit(): every character is a digit and there is at least one.
IsDigit(s) == s # <<>> /\ \A k \in 1..Len(s) : s[k] \in {"1", "2", "3"}

\* All sequences over S of length at most n.
SeqsUpTo(S, n) == UNION {[1..k -> S] : k \in 0..n}

\* The subsequence of s at the positions of the set P, in order.
RECURSIVE Pick(_, _, _)
Pick(s, P, k) ==
    IF k > Len(s) THEN <<>>
    ELSE IF k \in P THEN <<s[k]>> \o Pick(s, P, k + 1)
    ELSE Pick(s, P, k + 1)

----------------------------------------------------------------------------
(* domain/entities/batch_result.py *)

\* ImportAction
ImportAction == {"added", "skipped", "warning", "failed"}

\* ImportedItem(pmid, title, action, reason | error).  rec is the position of
\* the source record in `articles` (0 when the item stands alone).
ImportedItem(rec, pmid, title, action, detail) ==
    [rec |-> rec, pmid |-> pmid, title |-> title, action |-> action,
     detail |-> detail]

\* BatchImportResult(): the dataclass defaults.
NewBatchImportResult ==
    [success |-> TRUE, total |-> 0, added |-> 0, skipped |-> 0, warnings |-> 0,
     failed |-> 0, added_items |-> <<>>, skipped_items |-> <<>>,
     warning_items |-> <<>>, failed_items |-> <<>>, collection_key |-> NoneV]

\* A mutant of add_item: a FAILED item is counted but success is left alone.
add_item_KeepsSuccess(r, item) ==
    LET t == [r EXCEPT !.total = @ + 1] IN
    CASE item.action = "added" ->
            [t EXCEPT !.added = @ + 1, !.added_items = Append(@, item)]
      [] item.action = "skipped" ->
            [t EXCEPT !.skipped = @ + 1, !.skipped_items = Append(@, item)]
      [] item.action = "warning" ->
            [t EXCEPT !.warnings = @ + 1, !.warning_items = Append(@, item)]
      [] item.action = "failed" ->
            [t EXCEPT !.failed = @ + 1, !.failed_items = Append(@, item)]

\* A mutant of add_item: a WARNING item is listed but not counted.
add_item_WarningUncounted(r, item) ==
    LET t == [r EXCEPT !.total = @ + 1] IN
    CASE item.action = "added" ->
            [t EXCEPT !.added = @ + 1, !.added_items = Append(@, item)]
      [] item.action = "skipped" ->
            [t EXCEPT !.skipped = @ + 1, !.skipped_items = Append(@, item)]
      [] item.action = "warning" ->
            [t EXCEPT !.warning_items = Append(@, item)]
      [] item.action = "failed" ->
            [t EXCEPT !.failed = @ + 1, !.failed_items = Append(@, item),
                      !.success = FALSE]

\* BatchImportResult.add_item
add_item(r, item) ==
    LET t == [r EXCEPT !.total = @ + 1] IN
    CASE item.action = "added" ->
            [t EXCEPT !.added = @ + 1, !.added_items = Append(@, item)]
      [] item.action = "skipped" ->
            [t EXCEPT !.skipped = @ + 1, !.skipped_items = Append(@, item)]
      [] item.action = "warning" ->
            [t EXCEPT !.warnings = @ + 1, !.warning_items = Append(@, item)]
      [] item.action = "failed" ->
            [t EXCEPT !.failed = @ + 1, !.failed_items = Append(@, item),
                      !.success = FALSE]

\* add_item for every item of a sequence, in order.
RECURSIVE add_items(_, _)
add_items(r, items) ==
    IF items = <<>> THEN r ELSE add_items(add_item(r, Head(items)), Tail(items))

----------------------------------------------------------------------------
(* The values the run works on *)

KeyName(n) == CASE n = 1 -> "K1" [] n = 2 -> "K2" [] n = 3 -> "K3" [] OTHER -> "K4"

\* Keys of the collections a library can hold.
CollectionKeys == {<<KeyName(n)>> : n \in 1..MaxCols}

\* Display names of the collections a library can hold.
CollectionNames == {<<"a">>, <<"b">>}

\* A collection as list_collections() returns it: {"key": ..., "name": ...}.
Collection == [key : CollectionKeys, name : CollectionNames]

\* The snapshots list_collections() can return: no key twice.
Snapshots ==
    {s \in SeqsUpTo(Collection, MaxCols) :
        \A a, b \in 1..Len(s) : s[a].key = s[b].key => a = b}

\* collection_name arguments: absent, a name in another case, a name with a
\* trailing blank.
RequestedNames == {NoneV, <<"A">>, <<"a", " ">>}

\* collection_key arguments.
RequestedKeys == {NoneV, <<"K1">>}

\* The comma-separated pieces of the pmids argument.
PmidTokens == {<<"1">>, <<" ", "2">>, <<"x">>}

\* An item of the library: its key, its DOI field ("" when it has none) and
\* the PMID that `PMID:\s*(\d+)` finds in its extra field (None when none).
LibraryItems ==
    { [key |-> "I1", DOI |-> <<"x">>, pmid |-> NoneV],
      [key |-> "I2", DOI |-> <<>>, pmid |-> <<"1">>] }

\* The libraries get_items() can page through: no item twice.
Libraries ==
    {l \in SeqsUpTo(LibraryItems, MaxLib) :
        \A a, b \in 1..Len(l) : l[a] = l[b] => a = b}

\* article["doi"]: missing or empty, or a DOI.
ArticleDois == {<<>>, <<"X">>}

\* article["title"]: a title, or the key present with the value None.
ArticleTitles == {<<"t">>, NoneV}

\* article["authors"]: a list, or the key present with the value None.
ArticleAuthors == {"list", "None"}

Article(pmid, doi, title, authors) ==
    [pmid |-> pmid, doi |-> doi, title |-> title, authors |-> authors]

\* What a collaborator's call gives: a value, or an exception.
Returned(v) == [ok |-> TRUE, value |-> v]
Raised == [ok |-> FALSE, value |-> <<>>]

\* The value of `ret` while the run has not returned.
NoReturn ==
    [kind |-> "none", success |-> FALSE, error |-> "none",
     report |-> FALSE, warning |-> FALSE, available |-> <<>>, similar |-> <<>>]

\* A returned {"success": False, "error": ...}: the dict has no "report"
\* entry and no warning.
ErrorReturn(e) ==
    [kind |-> "error", success |-> FALSE, error |-> e,
     report |-> FALSE, warning |-> FALSE, available |-> <<>>, similar |-> <<>>]

\* s[:n]
Take(s, n) == SubSeq(s, 1, IF Len(s) < n THEN Len(s) ELSE n)

\* `sub in s` of two strings.
Contains(s, sub) ==
    \E i \in 0..(Len(s) - Len(sub)) : SubSeq(s, i + 1, i + Len(sub)) = sub

\* The slices of the not-found returns: [:5] of the similar names, [:10] of
\* the collections batch_import_from_pubmed lists, [:20] of those
\* import_articles lists.
SimilarLimit == 5
BatchAvailableLimit == 10
UnifiedAvailableLimit == 20

\* A mutant of similar_collections: the list is not cut.
similar_collections_Uncut(cols, name) ==
    LET hit == {k \in 1..Len(cols) : Contains(Lower(cols[k].name), Lower(name))}
        hits == Pick(cols, hit, 1)
    IN  [j \in 1..Len(hits) |-> hits[j].name]

\* similar = [c.get("name") for c in collections
\*            if collection_name.lower() in c.get("name", "").lower()][:5]
similar_collections(cols, name) ==
    LET hit == {k \in 1..Len(cols) : Contains(Lower(cols[k].name), Lower(name))}
        hits == Pick(cols, hit, 1)
    IN  Take([j \in 1..Len(hits) |-> hits[j].name], SimilarLimit)

\* The not-found return of batch_import_from_pubmed: the first collections
\* of the snapshot under "available_collections"; by name, the similar names
\* in the hint.
BatchNotFoundReturn(cols, name, by_name) ==
    [kind |-> "error", success |-> FALSE, error |-> "collection not found",
     report |-> FALSE, warning |-> FALSE,
     available |-> Take(cols, BatchAvailableLimit),
     similar |-> IF by_name THEN similar_collections(cols, name) ELSE <<>>]

\* A returned result.to_dict(), with "error" added by the outer handler.
\* to_dict() puts _generate_report() under "report"; the rendering ends with
\* "WARNING: No collection specified!" when result.collection_key is not set.
ReportReturn(r, e) ==
    [kind |-> "report", success |-> r.success, error |-> e,
     report |-> TRUE, warning |-> ~Truthy(r.collection_key),
     available |-> <<>>, similar |-> <<>>]

NoCollectionInfo == [key |-> NoneV, name |-> NoneV, resolved_from |-> "none"]

NoIdentifiers ==
    [existing_pmids |-> {}, existing_dois |-> {},
     pmid_to_key |-> [p \in {} |-> "unknown"],
     doi_to_key |-> [d \in {} |-> "unknown"]]

----------------------------------------------------------------------------
(* infrastructure/mcp/batch_tools.py: batch_import_from_pubmed *)

\* The first of the positions P (those whose element passes the test of the
\* loop), 0 when there is none:
\* `for col in collections: if ...: found = col; break`.
FirstIndex(P) ==
    IF P = {} THEN 0 ELSE CHOOSE k \in P : \A j \in P : k <= j

\* The collection validation block.  `listed` is what list_collections() gave.
\* status: "none" no destination asked, "resolved" found in the snapshot,
\* "not_found" the early return, "fallback" the except branch with a key,
\* "unvalidated" the except branch without a key.
BatchValidateCollection(name, key, listed) ==
    IF ~(Truthy(name) \/ Truthy(key))
    THEN [status |-> "none", key |-> NoneV, info |-> NoCollectionInfo]
    ELSE IF ~listed.ok
    THEN IF Truthy(key)
         THEN [status |-> "fallback", key |-> key,
               info |-> [key |-> key, name |-> <<"unknown (validation failed)">>,
                         resolved_from |-> "warning"]]
         ELSE [status |-> "unvalidated", key |-> NoneV, info |-> NoCollectionInfo]
    ELSE IF Truthy(name) /\ ~Truthy(key)
    THEN LET f == FirstIndex({k \in 1..Len(listed.value) :
                                  Lower(listed.value[k].name) = Lower(name)})
         IN  IF f = 0
             THEN [status |-> "not_found", key |-> NoneV, info |-> NoCollectionInfo]
             ELSE [status |-> "resolved", key |-> listed.value[f].key,
                   info |-> [key |-> listed.value[f].key,
                             name |-> listed.value[f].name,
                             resolved_from |-> "name"]]
    ELSE LET f == FirstIndex({k \in 1..Len(listed.value) :
                                  listed.value[k].key = key})
         IN  IF f = 0
             THEN [status |-> "not_found", key |-> NoneV, info |-> NoCollectionInfo]
             ELSE [status |-> "resolved", key |-> key,
                   info |-> [key |-> key, name |-> listed.value[f].name,
                             resolved_from |-> "key"]]

\* _parse_pmids on the comma-separated pieces of its argument.  An empty
\* argument and the keyword "last" give [] as well: no piece of them is a
\* number.
RECURSIVE parse_pmids(_)
parse_pmids(tokens) ==
    IF tokens = <<>> THEN <<>>
    ELSE LET pmid == Strip(Head(tokens))
         IN  (IF pmid # <<>> /\ IsDigit(pmid) THEN <<pmid>> ELSE <<>>)
                 \o parse_pmids(Tail(tokens))

\* What fetch_pubmed_articles(pmid_list) can return: the articles of some of
\* the requested PMIDs, in the order requested.
FetchedArticles(list) ==
    UNION { { [k \in 1..Cardinality(P) |->
                  Article(Pick(list, P, 1)[k], f[k][1], f[k][2], "list")] :
              f \in [1..Cardinality(P) -> ArticleDois \X ArticleTitles] } :
            P \in SUBSET (1..Len(list)) }

\* The set of the elements of a sequence.
Range(s) == {s[k] : k \in 1..Len(s)}

\* The last of the positions P (there is one): a later item overwrites the
\* key recorded for an identifier.
LastIndex(P) == CHOOSE k \in P : \A j \in P : j <= k

\* ZoteroClient.batch_check_identifiers: one scan of the items of the library.
batch_check_identifiers(all_items, check_pmids, check_dois) ==
    LET wanted_pmids == Range(check_pmids)
        wanted_dois == {Lower(d) : d \in Range(check_dois)}
        HasDoi(it) == it.DOI # <<>> /\ Lower(it.DOI) \in wanted_dois
        HasPmid(it) == it.pmid # NoneV /\ it.pmid \in wanted_pmids
        found_dois == {Lower(it.DOI) : it \in {x \in Range(all_items) : HasDoi(x)}}
        found_pmids == {it.pmid : it \in {x \in Range(all_items) : HasPmid(x)}}
    IN  [existing_pmids |-> found_pmids,
         existing_dois |-> found_dois,
         pmid_to_key |->
            [q \in found_pmids |->
                all_items[LastIndex({k \in 1..Len(all_items) :
                                        all_items[k].pmid = q})].key],
         doi_to_key |->
            [d \in found_dois |->
                all_items[LastIndex({k \in 1..Len(all_items) :
                                        /\ all_items[k].DOI # <<>>
                                        /\ Lower(all_items[k].DOI) = d})].key]]

\* `[a.get("doi", "").lower() for a in articles if a.get("doi")]`
ArticleDoiList(arts) ==
    LET WithDoi == {k \in 1..Len(arts) : Truthy(arts[k].doi)}
    IN  [k \in 1..Cardinality(WithDoi) |-> Lower(Pick(arts, WithDoi, 1)[k].doi)]

\* The call map_pubmed_to_zotero(article, extra_tags=..., collection_keys=...).
\* The function of mappers/pubmed_mapper.py takes (article, extra_tags) only:
\* the call raises TypeError for every article.  The unit tests of the tool
\* replace the name by a stand-in; `raises` is what the stand-in does on this
\* call.
MapperRaises(m, raises) == m = "module" \/ raises

\* A mutant of ProcessArticle: a record whose DOI is in the library is not
\* skipped.
ProcessArticle_DoiNotSkipped(m, skip, existing, article, raises) ==
    IF article.title = NoneV \/ article.doi = NoneV THEN [action |-> "abort", detail |-> <<>>]
    ELSE IF skip /\ article.pmid \in existing.existing_pmids
    THEN [action |-> "skipped",
          detail |-> <<"PMID already exists", existing.pmid_to_key[article.pmid]>>]
    ELSE IF m = "module" \/ raises
    THEN [action |-> "failed", detail |-> <<"Mapping error">>]
    ELSE [action |-> "buffer", detail |-> <<>>]

\* The decision of the per-record loop for one article.
\* "abort": the statement before the mapping raises (title or doi is None) and
\* the outer handler ends the run.
ProcessArticle(m, skip, existing, article, raises) ==
    IF article.title = NoneV \/ article.doi = NoneV THEN [action |-> "abort", detail |-> <<>>]
    ELSE IF skip /\ article.pmid \in existing.existing_pmids
    THEN [action |-> "skipped",
          detail |-> <<"PMID already exists", existing.pmid_to_key[article.pmid]>>]
    ELSE IF skip /\ Lower(article.doi) # <<>>
                 /\ Lower(article.doi) \in existing.existing_dois
    THEN [action |-> "skipped",
          detail |-> <<"DOI already exists", existing.doi_to_key[Lower(article.doi)]>>]
    ELSE IF MapperRaises(m, raises)
    THEN [action |-> "failed", detail |-> <<"Mapping error">>]
    ELSE [action |-> "buffer", detail |-> <<>>]

\* The item the stand-in mapper of the unit tests returns: the same dict for
\* every article, without a "collections" entry.
StandInItem == [title |-> <<"Test Article">>, DOI |-> <<>>, collections |-> <<>>]

\* (pmid, title, zotero_item) appended to items_to_save; rec is the position
\* of the article.
Buffered(rec, article, item) ==
    [rec |-> rec, pmid |-> article.pmid, title |-> article.title, item |-> item]

\* One ImportedItem per buffered record, in buffer order.
BufferOutcomes(buffer, action, detail) ==
    [k \in 1..Len(buffer) |->
        ImportedItem(buffer[k].rec, buffer[k].pmid, buffer[k].title, action, detail)]

\* One call of the duplicate check to the library, and whether it raised.
IdentifierCheck(raised) == [call |-> "check_identifiers", raised |-> raised]

\* One request of the external write (save_items): the items it was given,
\* each with the position of its source record, and whether it raised.
WriteCall(buffer, raised) ==
    [items |-> [k \in 1..Len(buffer) |-> [rec |-> buffer[k].rec, item |-> buffer[k].item]],
     raised |-> raised]

\* A mutant of batch_save_items: a failed request is sent once more.
batch_save_items_Retry(buffer, raised) ==
    IF buffer = <<>> THEN <<>>
    ELSE IF raised THEN <<WriteCall(buffer, raised), WriteCall(buffer, raised)>>
    ELSE <<WriteCall(buffer, raised)>>

\* ZoteroClient.batch_save_items: no request for an empty list, otherwise one
\* save_items request.  The requests it makes.
batch_save_items(buffer, raised) ==
    IF buffer = <<>> THEN <<>> ELSE <<WriteCall(buffer, raised)>>

\* A mutant of SaveOutcomes: the records are reported ADDED although the
\* write raised.
SaveOutcomes_AlwaysAdded(buffer, raised) ==
    BufferOutcomes(buffer, "added", <<>>)

\* The outcomes of the buffered records after the write: ADDED, or FAILED
\* with the save error when it raised.
SaveOutcomes(buffer, raised) ==
    IF raised
    THEN BufferOutcomes(buffer, "failed", <<"Save error">>)
    ELSE BufferOutcomes(buffer, "added", <<>>)

\* `if not BATCH_IMPORT_AVAILABLE: return {...}`, then the fresh result.
BatchStart ==
    /\ tool = "batch" /\ pc = "start"
    /\ IF batch_available
       THEN pc' = "resolve" /\ ret' = ret
       ELSE pc' = "done" /\ ret' = ErrorReturn("pubmed-search submodule not available")
    /\ UNCHANGED <<runs, candidate, duplicates, lookups, limit, prompt_vars>>
    /\ UNCHANGED <<tool, mapper, batch_available, include_citation_metrics,
                   citation_metrics, collection_name, collection_key,
                   skip_duplicates, pmids, pmid_list, collections, snapshot_read,
                   validated_collection_key, collection_info, library, articles,
                   existing_identifiers, idx, items_to_save, result, writes>>

\* The collection validation block: list_collections() is called when a name
\* or a key was given, and returns a snapshot or raises.
BatchResolveFrom(Listed) ==
    /\ tool = "batch" /\ pc = "resolve"
    /\ \E listed \in Listed :
          LET v == BatchValidateCollection(collection_name, collection_key, listed)
              called == Truthy(collection_name) \/ Truthy(collection_key)
          IN  /\ collections' = IF called /\ listed.ok THEN listed.value ELSE <<>>
              /\ snapshot_read' = (called /\ listed.ok)
              /\ validated_collection_key' = v.key
              /\ collection_info' = v.info
              /\ IF v.status = "not_found"
                 THEN /\ pc' = "done"
                      /\ ret' = BatchNotFoundReturn(listed.value, collection_name,
                                                    ~Truthy(collection_key))
                 ELSE pc' = "parse" /\ ret' = ret
    /\ UNCHANGED <<runs, candidate, duplicates, lookups, limit, prompt_vars>>
    /\ UNCHANGED <<tool, mapper, batch_available, include_citation_metrics,
                   citation_metrics, collection_name, collection_key,
                   skip_duplicates, pmids, pmid_list, library, articles,
                   existing_identifiers, idx, items_to_save, result, writes>>

\* The validation block, with list_collections() raising or returning one of
\* the snapshots.
BatchResolveCollection ==
    BatchResolveFrom({Raised} \cup {Returned(sn) : sn \in Snapshots})

\* pmid_list = _parse_pmids(pmids); `if not pmid_list: return {...}`.
\* The local `collections` is not read after the validation block.
BatchParsePmids ==
    /\ tool = "batch" /\ pc = "parse"
    /\ pmid_list' = parse_pmids(pmids)
    /\ collections' = <<>>
    /\ IF parse_pmids(pmids) = <<>>
       THEN pc' = "done" /\ ret' = ErrorReturn("No valid PMIDs provided")
       ELSE pc' = "fetch" /\ ret' = ret
    /\ UNCHANGED <<runs, candidate, duplicates, lookups, limit, prompt_vars>>
    /\ UNCHANGED <<tool, mapper, batch_available, include_citation_metrics,
                   citation_metrics, collection_name, collection_key,
                   skip_duplicates, pmids, snapshot_read, validated_collection_key,
                   collection_info, library, articles, existing_identifiers, idx,
                   items_to_save, result, writes>>

\* articles = fetch_pubmed_articles(pmid_list): raises, returns nothing, or
\* returns articles.
BatchFetchArticles ==
    /\ tool = "batch" /\ pc = "fetch"
    /\ \E fetched \in {Raised} \cup {Returned(a) : a \in FetchedArticles(pmid_list)} :
          IF ~fetched.ok
          THEN /\ pc' = "done" /\ articles' = articles
               /\ ret' = ErrorReturn("Failed to fetch article details")
          ELSE IF fetched.value = <<>>
          THEN /\ pc' = "done" /\ articles' = articles
               /\ ret' = ErrorReturn("No articles found for provided PMIDs")
          ELSE /\ pc' = "metrics" /\ articles' = fetched.value /\ ret' = ret
    /\ UNCHANGED <<runs, candidate, duplicates, lookups, limit, prompt_vars>>
    /\ UNCHANGED <<tool, mapper, batch_available, include_citation_metrics,
                   citation_metrics, collection_name, collection_key,
                   skip_duplicates, pmids, pmid_list, collections, snapshot_read,
                   validated_collection_key, collection_info, library,
                   existing_identifiers, idx, items_to_save, result, writes>>

\* A mutant of citation_metrics_lookup: an exception of the lookup is not
\* caught.
citation_metrics_lookup_Uncaught(outcome) ==
    [metrics |-> IF outcome = "fetched" THEN "fetched" ELSE "raised",
     propagates |-> outcome = "raised"]

\* The try block of step 2.5: searcher.get_citation_metrics(pmid_list)
\* returns the metrics, or raises; `except ImportError` and `except Exception`
\* log a warning and leave citation_metrics = {}.  What citation_metrics is
\* afterwards, and whether an exception leaves the block.
citation_metrics_lookup(outcome) ==
    [metrics |-> IF outcome = "fetched" THEN "fetched" ELSE "raised",
     propagates |-> FALSE]

\* Step 2.5: `if include_citation_metrics:` the lookup, then the merge of the
\* metrics into the articles (fields the model's articles do not carry).  An
\* exception leaving the block would end the run in the outer handler.
BatchCitationMetrics ==
    /\ tool = "batch" /\ pc = "metrics"
    /\ IF include_citation_metrics
       THEN \E outcome \in {"raised", "fetched"} :
               LET looked == citation_metrics_lookup(outcome)
               IN  IF looked.propagates
                   THEN /\ citation_metrics' = looked.metrics
                        /\ result' = [result EXCEPT !.success = FALSE]
                        /\ ret' = ReportReturn(result', "exception")
                        /\ pc' = "done"
                   ELSE /\ citation_metrics' = looked.metrics
                        /\ pc' = "check"
                        /\ UNCHANGED <<result, ret>>
       ELSE /\ pc' = "check"
            /\ UNCHANGED <<citation_metrics, result, ret>>
    /\ UNCHANGED <<runs, candidate, duplicates, lookups, limit, prompt_vars>>
    /\ UNCHANGED <<tool, mapper, batch_available, include_citation_metrics,
                   collection_name, collection_key, skip_duplicates, pmids,
                   pmid_list, collections, snapshot_read,
                   validated_collection_key, collection_info, library, articles,
                   existing_identifiers, idx, items_to_save, writes>>

\* The batch duplicate check: with skip_duplicates, one call of
\* batch_check_identifiers, which scans the library or raises; an exception
\* leaves existing_identifiers empty.
BatchCheckDuplicates ==
    /\ tool = "batch" /\ pc = "check"
    /\ IF skip_duplicates
       THEN \E lib \in Libraries, raised \in BOOLEAN :
               /\ library' = lib
               /\ existing_identifiers' =
                     IF raised THEN existing_identifiers
                     ELSE batch_check_identifiers(lib, pmid_list,
                                                  ArticleDoiList(articles))
               /\ lookups' = Append(lookups, IdentifierCheck(raised))
       ELSE /\ library' = library
            /\ existing_identifiers' = existing_identifiers
            /\ lookups' = lookups
    /\ pc' = "loop" /\ idx' = 1 /\ items_to_save' = <<>>
    /\ UNCHANGED <<runs, candidate, duplicates, limit, prompt_vars>>
    /\ UNCHANGED <<tool, mapper, batch_available, include_citation_metrics,
                   citation_metrics, collection_name, collection_key,
                   skip_duplicates, pmids, pmid_list, collections, snapshot_read,
                   validated_collection_key, collection_info, articles, result,
                   writes, ret>>

\* One iteration of `for article in articles`.
BatchProcessArticle ==
    /\ tool = "batch" /\ pc = "loop" /\ idx <= Len(articles)
    /\ \E raises \in BOOLEAN :
       LET article == articles[idx]
           d == ProcessArticle(mapper, skip_duplicates, existing_identifiers,
                               article, raises)
       IN  IF d.action = "abort"
           THEN /\ result' = [result EXCEPT !.success = FALSE]
                /\ ret' = ReportReturn([result EXCEPT !.success = FALSE], "exception")
                /\ pc' = "done" /\ idx' = idx /\ items_to_save' = items_to_save
           ELSE IF d.action = "buffer"
           THEN /\ items_to_save' =
                      Append(items_to_save, Buffered(idx, article, StandInItem))
                /\ idx' = idx + 1
                /\ UNCHANGED <<result, ret, pc>>
           ELSE /\ result' = add_item(result,
                                ImportedItem(idx, article.pmid, article.title,
                                             d.action, d.detail))
                /\ idx' = idx + 1
                /\ UNCHANGED <<items_to_save, ret, pc>>
    /\ UNCHANGED <<runs, candidate, duplicates, lookups, limit, prompt_vars>>
    /\ UNCHANGED <<tool, mapper, batch_available, include_citation_metrics,
                   citation_metrics, collection_name, collection_key,
                   skip_duplicates, pmids, pmid_list, collections, snapshot_read,
                   validated_collection_key, collection_info, library, articles,
                   existing_identifiers, writes>>

\* `if items_to_save:` one call of batch_save_items, which returns or raises;
\* every buffered record is then ADDED, or FAILED with the save error.
BatchSaveItems ==
    /\ tool = "batch" /\ pc = "loop" /\ idx > Len(articles)
    /\ IF items_to_save # <<>>
       THEN \E raised \in BOOLEAN :
               /\ writes' = writes \o batch_save_items(items_to_save, raised)
               /\ result' = add_items(result, SaveOutcomes(items_to_save, raised))
       ELSE UNCHANGED <<writes, result>>
    /\ pc' = "finalize"
    /\ UNCHANGED <<runs, candidate, duplicates, lookups, limit, prompt_vars>>
    /\ UNCHANGED <<tool, mapper, batch_available, include_citation_metrics,
                   citation_metrics, collection_name, collection_key,
                   skip_duplicates, pmids, pmid_list, collections, snapshot_read,
                   validated_collection_key, collection_info, library, articles,
                   existing_identifiers, idx, items_to_save, ret>>

\* result.collection_key, final_result = result.to_dict(), return.
BatchFinalize ==
    /\ tool = "batch" /\ pc = "finalize"
    /\ result' = IF Truthy(validated_collection_key)
                 THEN [result EXCEPT !.collection_key = validated_collection_key]
                 ELSE result
    /\ ret' = ReportReturn(result', "none")
    /\ pc' = "done"
    /\ UNCHANGED <<runs, candidate, duplicates, lookups, limit, prompt_vars>>
    /\ UNCHANGED <<tool, mapper, batch_available, include_citation_metrics,
                   citation_metrics, collection_name, collection_key,
                   skip_duplicates, pmids, pmid_list, collections, snapshot_read,
                   validated_collection_key, collection_info, library, articles,
                   existing_identifiers, idx, items_to_save, writes>>

BatchNext ==
    \/ BatchStart
    \/ BatchResolveCollection
    \/ BatchParsePmids
    \/ BatchFetchArticles
    \/ BatchCitationMetrics
    \/ BatchCheckDuplicates
    \/ BatchProcessArticle
    \/ BatchSaveItems
    \/ BatchFinalize

----------------------------------------------------------------------------
(* infrastructure/mcp/unified_import_tools.py: import_articles *)

\* A mutant of find_collection_by_name: when no name is equal, the first
\* collection of the library is taken.
find_collection_by_name_Closest(cols, name) ==
    LET name_lower == Strip(Lower(name))
        f == FirstIndex({k \in 1..Len(cols) :
                            Strip(Lower(cols[k].name)) = name_lower})
    IN  IF f # 0 THEN f ELSE IF cols # <<>> THEN 1 ELSE 0

\* ZoteroClient.find_collection_by_name(name): the first collection of
\* get_collections() whose name, lower-cased and stripped, is the name asked,
\* lower-cased and stripped; 0 when there is none.
find_collection_by_name(cols, name) ==
    LET name_lower == Strip(Lower(name))
    IN  FirstIndex({k \in 1..Len(cols) :
                        Strip(Lower(cols[k].name)) = name_lower})

\* Step 3 of import_articles.  `cols` are the collections of the library;
\* got: get_collection(key) / get_collections() returned; listed: the
\* list_collections() of a not-found branch returned.
\* status: "none", "resolved", "not_found" (the early return with the
\* available collections), "error" (an exception reached the outer handler).
UnifiedValidateCollection(name, key, cols, got, listed) ==
    IF Truthy(key)
    THEN IF got /\ FirstIndex({k \in 1..Len(cols) : cols[k].key = key}) # 0
         THEN [status |-> "resolved", key |-> key, read |-> FALSE]
         ELSE IF listed
         THEN [status |-> "not_found", key |-> NoneV, read |-> TRUE]
         ELSE [status |-> "error", key |-> NoneV, read |-> FALSE]
    ELSE IF Truthy(name)
    THEN IF ~got
         THEN [status |-> "error", key |-> NoneV, read |-> FALSE]
         ELSE LET f == find_collection_by_name(cols, name)
              IN  IF f # 0
                  THEN [status |-> "resolved", key |-> cols[f].key, read |-> TRUE]
                  ELSE IF listed
                  THEN [status |-> "not_found", key |-> NoneV, read |-> TRUE]
                  ELSE [status |-> "error", key |-> NoneV, read |-> TRUE]
    ELSE [status |-> "none", key |-> NoneV, read |-> FALSE]

\* _unified_article_to_zotero raises on an article whose "authors" is None
\* (`for author in authors`).
UnifiedMapperRaises(article) == article.authors = "None"

\* _unified_article_to_zotero(article) with the collection set by the caller:
\* the title as given, the DOI when the article has one.
unified_article_to_zotero(article, target_key) ==
    [title |-> article.title,
     DOI |-> IF Truthy(article.doi) THEN article.doi ELSE <<>>,
     collections |-> IF Truthy(target_key) THEN <<target_key>> ELSE <<>>]

\* The returned result dict, with the "error" set on the way out; it has no
\* rendered report, and result["warning"] only when the last step set it.
UnifiedReturn(r, e) ==
    [kind |-> "result", success |-> r.success, error |-> e,
     report |-> FALSE, warning |-> r.warning,
     available |-> <<>>, similar |-> <<>>]

\* The not-found return of import_articles: result["available_collections"]
\* holds the first collections listed; the hint names no collection.
UnifiedNotFoundReturn(r, cols) ==
    [kind |-> "result", success |-> r.success, error |-> "collection not found",
     report |-> FALSE, warning |-> r.warning,
     available |-> Take(cols, UnifiedAvailableLimit), similar |-> <<>>]

\* The result dict of import_articles.
NewUnifiedResult ==
    [success |-> FALSE, imported |-> 0, skipped |-> 0, errors |-> <<>>,
     warning |-> FALSE]

\* `zotero_items[:10]`: the items whose DOI is searched for.
DuplicateSearchWindow == 10

\* The filter of step 5: the buffered items whose lower-cased DOI is not among
\* existing_dois.
FilterDuplicates(buffer, existing_dois) ==
    LET Kept == {k \in 1..Len(buffer) :
                    ~(Lower(buffer[k].item.DOI) # <<>>
                      /\ Lower(buffer[k].item.DOI) \in existing_dois)}
    IN  Pick(buffer, Kept, 1)

\* Step 1: `if not articles and not ris_text`; ris_text is not given.
UnifiedStart ==
    /\ tool = "unified" /\ pc = "start"
    /\ IF articles = <<>>
       THEN pc' = "done" /\ ret' = UnifiedReturn(result, "Must provide either 'articles' or 'ris_text'")
       ELSE pc' = "resolve" /\ ret' = ret
    /\ UNCHANGED <<runs, candidate, duplicates, lookups, limit, prompt_vars>>
    /\ UNCHANGED <<tool, mapper, batch_available, include_citation_metrics,
                   citation_metrics, collection_name, collection_key,
                   skip_duplicates, pmids, pmid_list, collections, snapshot_read,
                   validated_collection_key, collection_info, library, articles,
                   existing_identifiers, idx, items_to_save, result, writes>>

\* Step 3: the collection validation.
UnifiedResolveFrom(Cols) ==
    /\ tool = "unified" /\ pc = "resolve"
    /\ \E cols \in Cols, got \in BOOLEAN, listed \in BOOLEAN :
          LET v == UnifiedValidateCollection(collection_name, collection_key,
                                             cols, got, listed)
          IN  /\ collections' = IF v.read THEN cols ELSE <<>>
              /\ snapshot_read' = v.read
              /\ validated_collection_key' = v.key
              /\ IF v.status = "not_found"
                 THEN pc' = "done" /\ ret' = UnifiedNotFoundReturn(result, cols)
                 ELSE IF v.status = "error"
                 THEN pc' = "done" /\ ret' = UnifiedReturn(result, "exception")
                 ELSE pc' = "convert" /\ ret' = ret
    /\ idx' = 1
    /\ UNCHANGED <<runs, candidate, duplicates, lookups, limit, prompt_vars>>
    /\ UNCHANGED <<tool, mapper, batch_available, include_citation_metrics,
                   citation_metrics, collection_name, collection_key,
                   skip_duplicates, pmids, pmid_list, collection_info, library,
                   articles, existing_identifiers, items_to_save, result, writes>>

\* Step 3 on the collections of one of the libraries.
UnifiedResolveCollection == UnifiedResolveFrom(Snapshots)

\* Step 4, one iteration of `for article in articles`: the item is appended
\* to zotero_items, or the error is recorded; recording it takes
\* article["title"][:50], which raises on a None title and ends the run.
UnifiedConvertArticle ==
    /\ tool = "unified" /\ pc = "convert" /\ idx <= Len(articles)
    /\ LET article == articles[idx]
       IN  IF ~UnifiedMapperRaises(article)
           THEN /\ items_to_save' =
                      Append(items_to_save,
                             Buffered(idx, article,
                                 unified_article_to_zotero(article,
                                                           validated_collection_key)))
                /\ idx' = idx + 1
                /\ UNCHANGED <<result, pc, ret>>
           ELSE IF article.title # NoneV
           THEN /\ result' = [result EXCEPT !.errors = Append(@, idx)]
                /\ idx' = idx + 1
                /\ UNCHANGED <<items_to_save, pc, ret>>
           ELSE /\ pc' = "done" /\ ret' = UnifiedReturn(result, "exception")
                /\ UNCHANGED <<items_to_save, result, idx>>
    /\ collections' = <<>>
    /\ UNCHANGED <<runs, candidate, duplicates, lookups, limit, prompt_vars>>
    /\ UNCHANGED <<tool, mapper, batch_available, include_citation_metrics,
                   citation_metrics, collection_name, collection_key,
                   skip_duplicates, pmids, pmid_list, snapshot_read,
                   validated_collection_key, collection_info, library, articles,
                   existing_identifiers, writes>>

\* `if not zotero_items: return`, then step 5: with skip_duplicates, one
\* search_items(DOI) for each of the first 10 items that has a DOI; the DOIs
\* of what the searches return are the existing ones.  A search that raises
\* leaves every item to be imported.
UnifiedCheckDuplicates ==
    /\ tool = "unified" /\ pc = "convert" /\ idx > Len(articles)
    /\ IF items_to_save = <<>>
       THEN /\ pc' = "done" /\ ret' = UnifiedReturn(result, "No valid articles to import")
            /\ UNCHANGED <<library, existing_identifiers, items_to_save, lookups>>
       ELSE /\ pc' = "save" /\ ret' = ret
            /\ IF skip_duplicates
               THEN \E lib \in Libraries, raised \in BOOLEAN :
                     \E hits \in SUBSET Range(lib) :
                       LET searched == \E k \in 1..Len(Take(items_to_save, DuplicateSearchWindow)) :
                                           items_to_save[k].item.DOI # <<>>
                           dois == IF searched
                                   THEN {Lower(h.DOI) : h \in {x \in hits : x.DOI # <<>>}}
                                   ELSE {}
                           kept == FilterDuplicates(items_to_save, dois)
                       IN  /\ library' = lib
                           /\ lookups' = IF searched
                                         THEN Append(lookups, IdentifierCheck(raised))
                                         ELSE lookups
                           /\ IF raised /\ searched
                              THEN UNCHANGED <<existing_identifiers, items_to_save>>
                              ELSE /\ existing_identifiers' =
                                         [existing_identifiers EXCEPT !.existing_dois = dois]
                                   /\ items_to_save' = kept
               ELSE UNCHANGED <<library, existing_identifiers, items_to_save, lookups>>
    /\ result' = result
    /\ collections' = <<>>
    /\ UNCHANGED <<runs, candidate, duplicates, limit, prompt_vars>>
    /\ UNCHANGED <<tool, mapper, batch_available, include_citation_metrics,
                   citation_metrics, collection_name, collection_key,
                   skip_duplicates, pmids, pmid_list, snapshot_read,
                   validated_collection_key, collection_info, articles, idx, writes>>

\* Step 6: `if items_to_import: await zotero_client.save_items(...)`; an
\* exception reaches the outer handler.
UnifiedSaveItems ==
    /\ tool = "unified" /\ pc = "save"
    /\ IF items_to_save # <<>>
       THEN \E raised \in BOOLEAN :
               /\ writes' = Append(writes, WriteCall(items_to_save, raised))
               /\ IF raised
                  THEN pc' = "done" /\ ret' = UnifiedReturn(result, "exception")
                  ELSE pc' = "respond" /\ ret' = ret
       ELSE pc' = "respond" /\ UNCHANGED <<writes, ret>>
    /\ UNCHANGED <<runs, candidate, duplicates, lookups, limit, prompt_vars>>
    /\ UNCHANGED <<tool, mapper, batch_available, include_citation_metrics,
                   citation_metrics, collection_name, collection_key,
                   skip_duplicates, pmids, pmid_list, collections, snapshot_read,
                   validated_collection_key, collection_info, library, articles,
                   existing_identifiers, idx, items_to_save, result>>

\* Step 7: the response.  Listing the titles takes item["title"][:50], which
\* raises on a None title: the outer handler then returns the error.
UnifiedRespond ==
    /\ tool = "unified" /\ pc = "respond"
    /\ IF \E k \in 1..Len(items_to_save) : items_to_save[k].item.title = NoneV
       THEN /\ result' = [result EXCEPT !.success = TRUE,
                                        !.imported = Len(items_to_save),
                                        !.skipped = Len(articles) - Len(result.errors)
                                                        - Len(items_to_save)]
            /\ ret' = UnifiedReturn(result', "exception")
       ELSE /\ result' = [result EXCEPT !.success = TRUE,
                                        !.imported = Len(items_to_save),
                                        !.skipped = Len(articles) - Len(result.errors)
                                                        - Len(items_to_save),
                                        !.warning = ~Truthy(validated_collection_key)]
            /\ ret' = UnifiedReturn(result', "none")
    /\ pc' = "done"
    /\ UNCHANGED <<runs, candidate, duplicates, lookups, limit, prompt_vars>>
    /\ UNCHANGED <<tool, mapper, batch_available, include_citation_metrics,
                   citation_metrics, collection_name, collection_key,
                   skip_duplicates, pmids, pmid_list, collections, snapshot_read,
                   validated_collection_key, collection_info, library, articles,
                   existing_identifiers, idx, items_to_save, writes>>

UnifiedNext ==
    \/ UnifiedStart
    \/ UnifiedResolveCollection
    \/ UnifiedConvertArticle
    \/ UnifiedCheckDuplicates
    \/ UnifiedSaveItems
    \/ UnifiedRespond

\* The articles argument of import_articles.
UnifiedArticles ==
    { Article(<<"1">>, <<"X">>, <<"t">>, "list"),
      Article(<<"1">>, <<>>, NoneV, "list"),
      Article(<<"1">>, <<>>, <<"t">>, "None"),
      Article(<<"1">>, <<>>, NoneV, "None") }

InitUnified ==
    /\ tool = "unified"
    /\ mapper = "module"
    /\ batch_available = TRUE
    /\ include_citation_metrics = FALSE
    /\ citation_metrics = "none"
    /\ pc = "start"
    /\ collection_name \in RequestedNames
    /\ collection_key \in RequestedKeys
    /\ skip_duplicates \in BOOLEAN
    /\ pmids = <<>>
    /\ pmid_list = <<>>
    /\ collections = <<>>
    /\ snapshot_read = FALSE
    /\ validated_collection_key = NoneV
    /\ collection_info = NoCollectionInfo
    /\ library = <<>>
    /\ articles \in SeqsUpTo(UnifiedArticles, MaxRecs)
    /\ existing_identifiers = NoIdentifiers
    /\ idx = 0
    /\ items_to_save = <<>>
    /\ result = NewUnifiedResult
    /\ writes = <<>>
    /\ ret = NoReturn
    /\ runs = <<>>
    /\ candidate = <<>>
    /\ duplicates = <<>>
    /\ lookups = <<>>
    /\ limit = 0
    /\ ctx = "none"
    /\ options_text = <<>>
    /\ key_to_num = <<>>
    /\ choice = <<>>
    /\ target_collection_key = NoneV

InitBatch ==
    /\ tool = "batch"
    /\ mapper \in {"module", "patched"}
    /\ batch_available \in BOOLEAN
    /\ include_citation_metrics = FALSE
    /\ citation_metrics = "none"
    /\ pc = "start"
    /\ collection_name \in RequestedNames
    /\ collection_key \in RequestedKeys
    /\ skip_duplicates \in BOOLEAN
    /\ pmids \in SeqsUpTo(PmidTokens, MaxRecs)
    /\ pmid_list = <<>>
    /\ collections = <<>>
    /\ snapshot_read = FALSE
    /\ validated_collection_key = NoneV
    /\ collection_info = NoCollectionInfo
    /\ library = <<>>
    /\ articles = <<>>
    /\ existing_identifiers = NoIdentifiers
    /\ idx = 0
    /\ items_to_save = <<>>
    /\ result = NewBatchImportResult
    /\ writes = <<>>
    /\ ret = NoReturn
    /\ runs = <<>>
    /\ candidate = <<>>
    /\ duplicates = <<>>
    /\ lookups = <<>>
    /\ limit = 0
    /\ ctx = "none"
    /\ options_text = <<>>
    /\ key_to_num = <<>>
    /\ choice = <<>>
    /\ target_collection_key = NoneV

\* The runs of batch_import_from_pubmed with include_citation_metrics=True
\* (the default): no destination, the mapper call going through.
InitMetrics ==
    /\ tool = "batch"
    /\ mapper = "patched"
    /\ batch_available = TRUE
    /\ include_citation_metrics = TRUE
    /\ citation_metrics = "none"
    /\ pc = "start"
    /\ collection_name = NoneV
    /\ collection_key = NoneV
    /\ skip_duplicates \in BOOLEAN
    /\ pmids \in SeqsUpTo(PmidTokens, MaxRecs)
    /\ pmid_list = <<>>
    /\ collections = <<>>
    /\ snapshot_read = FALSE
    /\ validated_collection_key = NoneV
    /\ collection_info = NoCollectionInfo
    /\ library = <<>>
    /\ articles = <<>>
    /\ existing_identifiers = NoIdentifiers
    /\ idx = 0
    /\ items_to_save = <<>>
    /\ result = NewBatchImportResult
    /\ writes = <<>>
    /\ ret = NoReturn
    /\ runs = <<>>
    /\ candidate = <<>>
    /\ duplicates = <<>>
    /\ lookups = <<>>
    /\ limit = 0
    /\ ctx = "none"
    /\ options_text = <<>>
    /\ key_to_num = <<>>
    /\ choice = <<>>
    /\ target_collection_key = NoneV

Init == InitBatch \/ InitMetrics \/ InitUnified

Next == BatchNext \/ UnifiedNext

Spec == Init /\ [][Next]_vars

----------------------------------------------------------------------------
(* BatchImportResult on its own: any sequence of add_item calls *)

\* result.add_item(ImportedItem(...)) with an item of any action.
AddItem ==
    /\ tool = "result" /\ result.total < MaxAdds
    /\ \E action \in ImportAction, pmid \in {<<"1">>, <<"2">>} :
          result' = add_item(result,
                             ImportedItem(result.total + 1, pmid, <<"t">>, action, <<>>))
    /\ UNCHANGED <<runs, candidate, duplicates, lookups, limit, prompt_vars>>
    /\ UNCHANGED <<tool, mapper, batch_available, include_citation_metrics,
                   citation_metrics, pc, collection_name,
                   collection_key, skip_duplicates, pmids, pmid_list, collections,
                   snapshot_read, validated_collection_key, collection_info,
                   library, articles, existing_identifiers, idx, items_to_save,
                   writes, ret>>

InitAddItem ==
    /\ tool = "result"
    /\ mapper = "module"
    /\ batch_available = TRUE
    /\ include_citation_metrics = FALSE
    /\ citation_metrics = "none"
    /\ pc = "done"
    /\ collection_name = NoneV
    /\ collection_key = NoneV
    /\ skip_duplicates = FALSE
    /\ pmids = <<>>
    /\ pmid_list = <<>>
    /\ collections = <<>>
    /\ snapshot_read = FALSE
    /\ validated_collection_key = NoneV
    /\ collection_info = NoCollectionInfo
    /\ library = <<>>
    /\ articles = <<>>
    /\ existing_identifiers = NoIdentifiers
    /\ idx = 0
    /\ items_to_save = <<>>
    /\ result = NewBatchImportResult
    /\ writes = <<>>
    /\ ret = NoReturn
    /\ runs = <<>>
    /\ candidate = <<>>
    /\ duplicates = <<>>
    /\ lookups = <<>>
    /\ limit = 0
    /\ ctx = "none"
    /\ options_text = <<>>
    /\ key_to_num = <<>>
    /\ choice = <<>>
    /\ target_collection_key = NoneV

SpecAddItem == InitAddItem /\ [][AddItem]_vars

----------------------------------------------------------------------------
(* Properties of BatchImportResult *)

\* The items of a list all carry the list's action.
AllOfAction(items, action) == \A k \in 1..Len(items) : items[k].action = action

\* C8: after any sequence of add_item calls, total is the sum of the four
\* counters, and each counter is the length of its list, whose items all
\* carry the list's action.
C8_CountersMatchLists ==
    tool = "result" =>
        /\ result.total = result.added + result.skipped + result.warnings + result.failed
        /\ result.added = Len(result.added_items)
        /\ result.skipped = Len(result.skipped_items)
        /\ result.warnings = Len(result.warning_items)
        /\ result.failed = Len(result.failed_items)
        /\ AllOfAction(result.added_items, "added")
        /\ AllOfAction(result.skipped_items, "skipped")
        /\ AllOfAction(result.warning_items, "warning")
        /\ AllOfAction(result.failed_items, "failed")

\* C8 witness: items of all four actions have been added.
C8_Witness ==
    /\ tool = "result"
    /\ result.added > 0 /\ result.skipped > 0
    /\ result.warnings > 0 /\ result.failed > 0

\* C9: success is false exactly when a FAILED item has been added, and a
\* later add_item of any action never makes it true again.
C9_SuccessIffNoFailed ==
    /\ [](tool = "result" => (result.success <=> result.failed_items = <<>>))
    /\ [][(tool = "result" /\ ~result.success) => ~result'.success]_vars

\* C9 witness: a FAILED item was added and then an ADDED one, and success is
\* still false.
C9_Witness ==
    /\ tool = "result"
    /\ ~result.success
    /\ \E i \in 1..Len(result.failed_items), j \in 1..Len(result.added_items) :
          result.failed_items[i].rec < result.added_items[j].rec

----------------------------------------------------------------------------
(* Properties of the collection validation *)

\* A collection name or key was supplied.
DestinationRequested == Truthy(collection_name) \/ Truthy(collection_key)

\* Some collection of the snapshot matches the destination asked, the key
\* when one is given and the name otherwise: key by equality, name by
\* equality ignoring case.
MatchesIgnoringCase(cols) ==
    IF Truthy(collection_key)
    THEN \E k \in 1..Len(cols) : cols[k].key = collection_key
    ELSE \E k \in 1..Len(cols) : Lower(cols[k].name) = Lower(collection_name)

\* The same, with the names of import_articles compared ignoring case and
\* leading and trailing whitespace.
MatchesAsCompared(cols) ==
    IF Truthy(collection_key)
    THEN \E k \in 1..Len(cols) : cols[k].key = collection_key
    ELSE IF tool = "unified"
    THEN \E k \in 1..Len(cols) :
            Strip(Lower(cols[k].name)) = Strip(Lower(collection_name))
    ELSE \E k \in 1..Len(cols) : Lower(cols[k].name) = Lower(collection_name)

\* The run has returned a failed result and has made no write.
FailedWithoutWrite == pc = "done" /\ ~ret.success /\ writes = <<>>

\* C1 as stated: when the validation step reads a snapshot in which no
\* collection matches the destination asked (key: equality; name: equality
\* ignoring case), the step ends the run with a failed result and no write.
C1_NotFoundAsStated ==
    [][(pc = "resolve" /\ DestinationRequested /\ snapshot_read'
            /\ ~MatchesIgnoringCase(collections'))
        => FailedWithoutWrite']_vars

\* C1: when the validation step reads a snapshot in which no collection
\* matches the destination asked (key: equality; name: equality ignoring case
\* and, in import_articles, surrounding whitespace), the step ends the run
\* with a failed result and no write; a run ended as "collection not found"
\* has made no write.
C1_NotFoundNoWrite ==
    /\ [][(pc = "resolve" /\ DestinationRequested /\ snapshot_read'
              /\ ~MatchesAsCompared(collections'))
          => FailedWithoutWrite']_vars
    /\ [](ret.error = "collection not found" => FailedWithoutWrite)

\* C1 witness: import_articles was given a name, read a snapshot that has
\* collections, none of them matching, and returned "collection not found".
C1_Witness ==
    /\ tool = "unified" /\ pc = "done"
    /\ Truthy(collection_name) /\ ~Truthy(collection_key)
    /\ snapshot_read /\ collections # <<>>
    /\ ~MatchesAsCompared(collections)
    /\ ret.error = "collection not found"
    /\ writes = <<>>

\* The destination was found in a snapshot that was read.
DestinationVerified ==
    snapshot_read /\ collection_info.resolved_from \in {"name", "key"}

\* C2: in batch_import_from_pubmed, once the validation step is over with a
\* destination asked and not verified against a snapshot, the run has ended
\* with an error result and no write.
C2_UnverifiedAborts ==
    (tool = "batch" /\ DestinationRequested /\ pc \notin {"start", "resolve"}
        /\ ~DestinationVerified)
    => (pc = "done" /\ ret.kind = "error" /\ writes = <<>>)

----------------------------------------------------------------------------
(* Properties of the per-record loop and of the write *)

\* The positions of the source records of the items of a sequence.
RecsOf(items) == {items[k].rec : k \in 1..Len(items)}

\* The positions of the records contained in the write calls made so far.
WrittenRecs == UNION {RecsOf(writes[k].items) : k \in 1..Len(writes)}

\* The failed items that carry the given error.
FailedWith(error) ==
    LET Carries(item) == item.detail = <<error>>
    IN  SelectSeq(result.failed_items, Carries)

\* The article is in the identifiers the duplicate check returned.
KnownDuplicate(article) ==
    \/ article.pmid \in existing_identifiers.existing_pmids
    \/ /\ Truthy(article.doi)
       /\ Lower(article.doi) \in existing_identifiers.existing_dois

\* C3: every item of a write call of batch_import_from_pubmed comes from a
\* fetched record that is in the write buffer, whose outcome is not Skipped,
\* that did not fail at mapping and, with duplicate skipping, that the
\* duplicate check did not report.
C3_WrittenWereMapped ==
    tool = "batch" =>
        \A r \in WrittenRecs :
            /\ r \in 1..Len(articles)
            /\ r \in RecsOf(items_to_save)
            /\ r \notin RecsOf(result.skipped_items)
            /\ r \notin RecsOf(FailedWith("Mapping error"))
            /\ skip_duplicates => ~KnownDuplicate(articles[r])

\* C3 witness: of two fetched records one was skipped as a duplicate and the
\* other one was written.
C3_Witness ==
    /\ tool = "batch" /\ Len(articles) = 2
    /\ Len(writes) = 1 /\ Len(writes[1].items) = 1
    /\ result.skipped_items # <<>>

\* The run is past the write step and was not ended by an exception.
PastWrite ==
    \/ pc = "finalize"
    \/ pc = "done" /\ ret.kind = "report" /\ ret.error = "none"

\* C4: a run makes at most one write call; none before the write step; past
\* it, exactly one when the write buffer is not empty and none when it is,
\* also when the call raised.
C4_AtMostOneWrite ==
    /\ Len(writes) <= 1
    /\ tool = "batch" =>
          /\ ~PastWrite => writes = <<>>
          /\ PastWrite => Len(writes) = (IF items_to_save # <<>> THEN 1 ELSE 0)

\* C4 witness: the run has returned its report after one write call that
\* raised.
C4_Witness ==
    /\ tool = "batch" /\ pc = "done" /\ ret.kind = "report"
    /\ Len(writes) = 1 /\ writes[1].raised

OutcomeRecs ==
    RecsOf(result.added_items) \cup RecsOf(result.skipped_items)
        \cup RecsOf(result.warning_items) \cup RecsOf(result.failed_items)

\* C6: when batch_import_from_pubmed has returned after fetching articles,
\* every fetched record has an outcome in the report, whatever failed while
\* another record was processed.
C6_EveryRecordHasOutcome ==
    (tool = "batch" /\ pc = "done" /\ articles # <<>>)
    => OutcomeRecs = 1..Len(articles)

\* The run has returned its report from the last statement of the tool, not
\* from the handler of an exception.
ReportReturned == pc = "done" /\ ret.kind = "report" /\ ret.error = "none"

\* C7: the total of a returned report is the number of valid identifiers
\* asked for, whatever the fetch returned.
C7_TotalIsRequested ==
    (tool = "batch" /\ ReportReturned) => result.total = Len(pmid_list)

\* The article has the PMID or, ignoring case, the DOI of an item of the
\* library.
InLibrary(article) ==
    \E k \in 1..Len(library) :
        \/ library[k].pmid # NoneV /\ library[k].pmid = article.pmid
        \/ /\ Truthy(article.doi) /\ library[k].DOI # <<>>
           /\ Lower(library[k].DOI) = Lower(article.doi)

\* C10: in a returned report, with duplicate skipping every record that is
\* in the library is Skipped with a reason naming the match and was not
\* written, and every other record that was mapped is Added when the write
\* succeeded; without duplicate skipping no record is Skipped.
C10_DuplicatesSkipped ==
    (tool = "batch" /\ ReportReturned) =>
        /\ skip_duplicates =>
              \A r \in 1..Len(articles) :
                  IF InLibrary(articles[r])
                  THEN /\ r \notin WrittenRecs
                       /\ \E k \in 1..Len(result.skipped_items) :
                             /\ result.skipped_items[k].rec = r
                             /\ result.skipped_items[k].detail[1] \in
                                   {"PMID already exists", "DOI already exists"}
                  ELSE (r \in WrittenRecs /\ ~writes[1].raised)
                           => r \in RecsOf(result.added_items)
        /\ ~skip_duplicates => result.skipped_items = <<>>

----------------------------------------------------------------------------
(* C11: the collection on the written items *)

\* The collections list the items of a write of this run are to carry: the
\* resolved collection id alone, or no entry when no destination is in force.
ExpectedCollections ==
    IF Truthy(validated_collection_key) THEN <<validated_collection_key>> ELSE <<>>

\* C11: every item of every write call of batch_import_from_pubmed carries
\* exactly the resolved collection id in its collections list, and no
\* collections entry when no destination was resolved.
C11_WrittenCarryCollection ==
    tool = "batch" =>
        \A w \in 1..Len(writes) : \A k \in 1..Len(writes[w].items) :
            writes[w].items[k].item.collections = ExpectedCollections

----------------------------------------------------------------------------
(* C12: the warning of a run without destination *)

\* A write of the run went through: its items are in the library.
SavedSomething == \E w \in 1..Len(writes) : ~writes[w].raised

\* C12: when neither a collection name nor a collection key was supplied,
\* every returned report, and every result returned after items were saved,
\* carries the warning that the items went to the library root.
C12_RootIsWarned ==
    (pc = "done" /\ ~DestinationRequested /\ (ret.report \/ SavedSomething))
        => ret.warning

\* The same for the reports of batch_import_from_pubmed alone.
C12_BatchRootIsWarned ==
    (tool = "batch" /\ pc = "done" /\ ~DestinationRequested /\ ret.report)
        => ret.warning

----------------------------------------------------------------------------
(* C13: the rendered report in every returned result *)

\* C13: every result batch_import_from_pubmed returns, the failed early
\* exits included, contains the rendered report.
C13_EveryResultHasReport ==
    (tool = "batch" /\ pc = "done") => ret.report

----------------------------------------------------------------------------
(* C14: no failure crosses the boundary of the run *)

\* The run has ended through the handler of the outer try.
EndedByException == pc = "done" /\ ret.error = "exception"

\* C14: a run that has ended has returned a result with a success flag, and
\* when batch_import_from_pubmed ended because the processing of a record
\* raised, that record is reported Failed or Skipped.
C14_FailuresArePerRecord ==
    pc = "done" =>
        /\ ret.kind \in {"error", "report", "result"}
        /\ (tool = "batch" /\ EndedByException)
               => idx \in RecsOf(result.failed_items) \cup RecsOf(result.skipped_items)

\* The part of C14 that holds: every ended run has returned a value with a
\* success flag, and that flag is false whenever the run ended on an error
\* of the batch tool.
C14_AlwaysReturnsResult ==
    pc = "done" =>
        /\ ret.kind \in {"error", "report", "result"}
        /\ (tool = "batch" /\ ret.error # "none") => ~ret.success

----------------------------------------------------------------------------
(* C17: the exit on an empty input *)

\* The pmids argument holds no valid identifier.
EmptyInput == parse_pmids(pmids) = <<>>

\* C17: a run of batch_import_from_pubmed whose input holds no valid
\* identifier ends with the failed result of the input validation, and it has
\* not read the collections snapshot nor resolved a destination.
C17_EmptyInputExitsFirst ==
    (tool = "batch" /\ batch_available /\ pc = "done" /\ EmptyInput) =>
        /\ ret.error = "No valid PMIDs provided"
        /\ ~snapshot_read
        /\ validated_collection_key = NoneV

\* The order import_articles keeps: a run that got no article ends before
\* the collections are looked up.
C17_UnifiedValidatesFirst ==
    (tool = "unified" /\ pc = "done" /\ articles = <<>>) =>
        /\ ~snapshot_read
        /\ validated_collection_key = NoneV

----------------------------------------------------------------------------
(* C15: failures of the enrichment calls *)

\* The reasons a record of batch_import_from_pubmed is reported Failed with.
FailureReasons == {"Mapping error", "Save error"}

\* The run ended in the outer handler while a record with a None title or
\* doi was processed.
AbortedOnRecord ==
    /\ EndedByException
    /\ idx \in 1..Len(articles)
    /\ (articles[idx].title = NoneV \/ articles[idx].doi = NoneV)

\* C15 (amended): a citation-metrics lookup that raises does not end the
\* run and gives no record an outcome: the run goes on to the duplicate check
\* and the per-record loop with the articles as fetched, a record is Failed
\* only for a mapping or a save error, and the run returns its report.
C15_MetricsFailureContinues ==
    (tool = "batch" /\ citation_metrics = "raised") =>
        /\ pc \in {"check", "loop", "finalize", "done"}
        /\ articles # <<>>
        /\ pc = "check" => result = NewBatchImportResult
        /\ \A k \in 1..Len(result.failed_items) :
               result.failed_items[k].detail[1] \in FailureReasons
        /\ pc = "done" =>
               /\ ret.report
               /\ (ret.error = "none" \/ AbortedOnRecord)

\* C15 as stated: neither a failed citation-metrics lookup nor a failed
\* fetch of the article metadata ends the run before the per-record loop.
C15_EnrichmentNeverAborts ==
    /\ C15_MetricsFailureContinues
    /\ (tool = "batch" /\ pc = "done")
           => ret.error # "Failed to fetch article details"

\* A run whose citation-metrics lookup raised has imported a record.
C15_Witness ==
    /\ tool = "batch" /\ citation_metrics = "raised"
    /\ pc = "done" /\ ret.error = "none" /\ ret.success
    /\ result.added >= 1

----------------------------------------------------------------------------
(* infrastructure/mcp/smart_tools.py: _find_duplicates *)

\* Fuzzy match score (0-100) from which a title is a duplicate.
TITLE_MATCH_THRESHOLD == 85

\* The identifier kinds, in the order the loop takes them.
EXACT_MATCH_FIELDS == <<"DOI", "ISBN", "PMID">>

\* search_items(query=identifier, limit=10)
SearchLimit == 10

\* process.extract(..., limit=5)
ExtractLimit == 5

\* The default of the parameter `limit`, given to get_items.
GetItemsLimit == 100

\* The values of `limit` a search is called with: one item, the default.
Limits == {1, GetItemsLimit}

\* The score of two equal strings.
FullScore == 100

\* Scores of two titles that differ: far below and above the threshold.
FarScore == 0
NearScore == 90

\* The most items the library of a duplicate search holds.
MaxExisting == 2

\* \w of the regular expressions, on the characters the titles are made of.
IsWordChar(c) == c \in {"a", "b", "x", "A", "B", "X", "1", "2", "3", "9", "_"}

\* \s of the regular expressions: the blank and the tab.
IsSpace(c) == c \in {" ", "\t"}

\* re.sub(r'[^\w\s]', ' ', title)
PunctToSpace(s) ==
    [k \in 1..Len(s) |-> IF IsWordChar(s[k]) \/ IsSpace(s[k]) THEN s[k] ELSE " "]

\* The string without the whitespace it begins with.
RECURSIVE DropSpaces(_)
DropSpaces(s) == IF s # <<>> /\ IsSpace(Head(s)) THEN DropSpaces(Tail(s)) ELSE s

\* re.sub(r'\s+', ' ', title): every run of whitespace becomes one blank.
RECURSIVE CollapseSpaces(_)
CollapseSpaces(s) ==
    IF s = <<>> THEN <<>>
    ELSE IF IsSpace(s[1]) THEN <<" ">> \o CollapseSpaces(DropSpaces(Tail(s)))
    ELSE <<s[1]>> \o CollapseSpaces(Tail(s))

\* A mutant of normalize_title: the runs of blanks are made one before the
\* punctuation is turned into blanks.
normalize_title_CollapseFirst(title) ==
    IF ~Truthy(title) THEN <<>>
    ELSE Strip(PunctToSpace(CollapseSpaces(Lower(title))))

\* _normalize_title: "" for None or "", otherwise lower case, punctuation to
\* blanks, runs of blanks to one, stripped.
normalize_title(title) ==
    IF ~Truthy(title) THEN <<>>
    ELSE Strip(CollapseSpaces(PunctToSpace(Lower(title))))

\* str.upper() on the label of an extra line.
UpperLabel(l) == CASE l = "pmid" -> "PMID" [] l = "doi" -> "DOI" [] OTHER -> l

\* An item without an extra field.
NoExtra == [label |-> "", value |-> <<>>]

\* _extract_identifier: the field of the item itself (not of item["data"]),
\* stripped and lower-cased; otherwise the value that follows "<field>:" in
\* the extra field, whatever the case of the label; otherwise None.
extract_identifier(it, field) ==
    IF Truthy(it[field]) THEN Lower(Strip(it[field]))
    ELSE IF it.extra # NoExtra /\ UpperLabel(it.extra.label) = field
    THEN Lower(it.extra.value)
    ELSE NoneV

\* The candidate records: a title (or ""), a DOI, an ISBN, and the PMID in
\* the extra field as the mappers write it.
Candidates ==
    [title : {<<>>, <<"A">>}, DOI : {<<>>, <<"X">>}, ISBN : {<<>>, <<"9">>},
     PMID : {<<>>}, extra : {NoExtra, [label |-> "PMID", value |-> <<"1">>]}]

\* An item as search_items / get_items return it: its key, the identifier
\* fields at the top level ("" when absent), and the "data" dict.
ExistingItem(key, doi, isbn, extra, data_title, data_doi) ==
    [key |-> key, DOI |-> doi, ISBN |-> isbn, PMID |-> <<>>, extra |-> extra,
     data |-> [title |-> data_title, DOI |-> data_doi]]

\* E1: fields at the top level and in data, as the unit tests build them.
\* E2: the shape of the local API, every field under data.
\* E3: the PMID in the extra field.  E4: an ISBN.
ExistingItems ==
    { ExistingItem("E1", <<"x">>, <<>>, NoExtra, <<"a">>, <<"x">>),
      ExistingItem("E2", <<>>, <<>>, NoExtra, <<"a", "!">>, <<"x">>),
      ExistingItem("E3", <<>>, <<>>, [label |-> "pmid", value |-> <<"1">>],
                   <<"b">>, <<>>),
      ExistingItem("E4", <<>>, <<"9">>, NoExtra, <<"A">>, <<>>) }

\* The libraries a duplicate search can meet: no item twice.
ExistingLibraries ==
    {l \in SeqsUpTo(ExistingItems, MaxExisting) :
        \A a, b \in 1..Len(l) : l[a] = l[b] => a = b}

\* One entry of the returned list.
Duplicate(key, title, match_type, score) ==
    [key |-> key, title |-> title, match_type |-> match_type, score |-> score]

\* The inner loop over the results of one search: the results whose own
\* identifier of this kind equals the candidate's.
ExactMatches(results, field, identifier) ==
    LET hit == {k \in 1..Len(results) :
                    /\ extract_identifier(results[k], field) # NoneV
                    /\ extract_identifier(results[k], field) = identifier}
        hits == Pick(results, hit, 1)
    IN  [j \in 1..Len(hits) |->
            Duplicate(hits[j].key, hits[j].data.title, <<"exact", field>>, FullScore)]

\* fuzz.token_sort_ratio of two normalized titles: 100 for equal strings;
\* `other` stands for the score of two strings that differ.
token_sort_ratio(a, b, other) == IF a = b THEN FullScore ELSE other

\* process.extract(query, choices, limit=n): the positions of the choices by
\* falling score, earlier first among equals, at most n of them.
ExtractOrder(scores, n) ==
    LET Rank(j) == Cardinality({i \in 1..Len(scores) :
                                    \/ scores[i] > scores[j]
                                    \/ scores[i] = scores[j] /\ i < j})
        m == IF Len(scores) < n THEN Len(scores) ELSE n
    IN  [r \in 1..m |-> CHOOSE j \in 1..Len(scores) : Rank(j) = r - 1]

\* A mutant of FuzzyMatches: the titles are returned whatever their score.
FuzzyMatches_NoThreshold(existing_items, normalized_title, other) ==
    LET titled == {k \in 1..Len(existing_items) :
                        normalize_title(existing_items[k].data.title) # <<>>}
        kept == Pick(existing_items, titled, 1)
        existing_titles == [j \in 1..Len(kept) |-> normalize_title(kept[j].data.title)]
        title_to_item(n) ==
            kept[LastIndex({j \in 1..Len(kept) : existing_titles[j] = n})]
        scores == [j \in 1..Len(kept) |->
                      token_sort_ratio(normalized_title, existing_titles[j], other)]
        order == ExtractOrder(scores, ExtractLimit)
    IN  [j \in 1..Len(order) |->
            Duplicate(title_to_item(existing_titles[order[j]]).key,
                      title_to_item(existing_titles[order[j]]).data.title,
                      <<"fuzzy_title">>, scores[order[j]])]

\* The fuzzy part: the titles of the snapshot are normalized into the list
\* existing_titles and the dict title_to_item (a later item with the same
\* normalized title replaces an earlier one), the best ExtractLimit titles
\* are taken, and those that reach the threshold are returned with the item
\* the dict holds for the title.
FuzzyMatches(existing_items, normalized_title, other) ==
    LET titled == {k \in 1..Len(existing_items) :
                        normalize_title(existing_items[k].data.title) # <<>>}
        kept == Pick(existing_items, titled, 1)
        existing_titles == [j \in 1..Len(kept) |-> normalize_title(kept[j].data.title)]
        title_to_item(n) ==
            kept[LastIndex({j \in 1..Len(kept) : existing_titles[j] = n})]
        scores == [j \in 1..Len(kept) |->
                      token_sort_ratio(normalized_title, existing_titles[j], other)]
        order == ExtractOrder(scores, ExtractLimit)
        passing == {j \in 1..Len(order) : scores[order[j]] >= TITLE_MATCH_THRESHOLD}
        taken == Pick(order, passing, 1)
    IN  [j \in 1..Len(taken) |->
            Duplicate(title_to_item(existing_titles[taken[j]]).key,
                      title_to_item(existing_titles[taken[j]]).data.title,
                      <<"fuzzy_title">>, scores[taken[j]])]

\* The variables a duplicate search leaves alone.
run_vars ==
    <<mapper, batch_available, include_citation_metrics, citation_metrics,
      collection_name, collection_key, skip_duplicates, pmids, pmid_list,
      collections, snapshot_read, validated_collection_key, collection_info,
      articles, existing_identifiers, items_to_save, result, writes, ret, runs>>

\* `if not normalized_title: return duplicates`
FindStart ==
    /\ tool = "find_duplicates" /\ pc = "start"
    /\ IF normalize_title(candidate.title) = <<>>
       THEN pc' = "done" /\ idx' = idx
       ELSE pc' = "exact" /\ idx' = 1
    /\ UNCHANGED <<tool, library, candidate, duplicates, lookups, limit, prompt_vars>>
    /\ UNCHANGED run_vars

\* One turn of `for field in EXACT_MATCH_FIELDS`: when the candidate has an
\* identifier of this kind, one search_items call, which returns some items
\* of the library; every result with the same identifier is appended.
FindExactField ==
    /\ tool = "find_duplicates" /\ pc = "exact" /\ idx <= Len(EXACT_MATCH_FIELDS)
    /\ LET field == EXACT_MATCH_FIELDS[idx]
           identifier == extract_identifier(candidate, field)
       IN  IF identifier # NoneV
           THEN \E found \in SUBSET (1..Len(library)) :
                   LET results == Take(Pick(library, found, 1), SearchLimit)
                   IN  /\ lookups' = Append(lookups, <<"search_items", field>>)
                       /\ duplicates' =
                              duplicates \o ExactMatches(results, field, identifier)
           ELSE UNCHANGED <<lookups, duplicates>>
    /\ idx' = idx + 1
    /\ UNCHANGED <<tool, pc, library, candidate, limit, prompt_vars>>
    /\ UNCHANGED run_vars

\* After the loop: `if duplicates: return duplicates`; otherwise get_items
\* reads the recent items and the fuzzy matches are returned.
FindFuzzyTitles ==
    /\ tool = "find_duplicates" /\ pc = "exact" /\ idx > Len(EXACT_MATCH_FIELDS)
    /\ IF duplicates # <<>>
       THEN UNCHANGED <<lookups, duplicates>>
       ELSE \E other \in {FarScore, NearScore} :
               /\ lookups' = Append(lookups, <<"get_items">>)
               /\ duplicates' = FuzzyMatches(Take(library, limit),
                                             normalize_title(candidate.title), other)
    /\ pc' = "done"
    /\ UNCHANGED <<tool, idx, library, candidate, limit, prompt_vars>>
    /\ UNCHANGED run_vars

FindNext == FindStart \/ FindExactField \/ FindFuzzyTitles

InitFindDuplicates ==
    /\ tool = "find_duplicates"
    /\ mapper = "module"
    /\ batch_available = TRUE
    /\ include_citation_metrics = FALSE
    /\ citation_metrics = "none"
    /\ pc = "start"
    /\ collection_name = NoneV
    /\ collection_key = NoneV
    /\ skip_duplicates = FALSE
    /\ pmids = <<>>
    /\ pmid_list = <<>>
    /\ collections = <<>>
    /\ snapshot_read = FALSE
    /\ validated_collection_key = NoneV
    /\ collection_info = NoCollectionInfo
    /\ library \in ExistingLibraries
    /\ articles = <<>>
    /\ existing_identifiers = NoIdentifiers
    /\ idx = 0
    /\ items_to_save = <<>>
    /\ result = NewBatchImportResult
    /\ writes = <<>>
    /\ ret = NoReturn
    /\ runs = <<>>
    /\ candidate \in Candidates
    /\ duplicates = <<>>
    /\ lookups = <<>>
    /\ limit \in Limits
    /\ ctx = "none"
    /\ options_text = <<>>
    /\ key_to_num = <<>>
    /\ choice = <<>>
    /\ target_collection_key = NoneV

SpecFindDuplicates == InitFindDuplicates /\ [][FindNext]_vars

----------------------------------------------------------------------------
(* C18: an existing item with the candidate's DOI *)

\* The DOI of an item of the library: at the top level, or under "data".
ExistingDoi(e) == IF Truthy(e.DOI) THEN e.DOI ELSE e.data.DOI

\* The item of the library has the DOI of the candidate, ignoring case.
SameDoi(e) ==
    /\ Truthy(candidate.DOI) /\ Truthy(ExistingDoi(e))
    /\ Lower(Strip(candidate.DOI)) = Lower(Strip(ExistingDoi(e)))

\* The search has returned.
FindReturned == tool = "find_duplicates" /\ pc = "done"

\* C18: when _find_duplicates has returned, every item of the library with
\* the candidate's DOI (ignoring case) is in the returned list as an
\* exact-DOI match of score 100, and the recent items were not read for a
\* fuzzy comparison.
C18_ExactDoiReturned ==
    FindReturned =>
        \A k \in 1..Len(library) :
            SameDoi(library[k]) =>
                /\ \E d \in 1..Len(duplicates) :
                      /\ duplicates[d].key = library[k].key
                      /\ duplicates[d].match_type = <<"exact", "DOI">>
                      /\ duplicates[d].score = FullScore
                /\ \A c \in 1..Len(lookups) : lookups[c] # <<"get_items">>

----------------------------------------------------------------------------
(* C19: the order of the identifier kinds *)

\* The place of an identifier kind in EXACT_MATCH_FIELDS.
FieldPos(f) == CHOOSE k \in 1..Len(EXACT_MATCH_FIELDS) : EXACT_MATCH_FIELDS[k] = f

\* The kinds a search_items call was made for, and the kinds of the exact
\* matches found so far.
SearchedKinds ==
    {lookups[c][2] : c \in {k \in 1..Len(lookups) : lookups[k][1] = "search_items"}}
MatchedKinds ==
    {duplicates[d].match_type[2] :
        d \in {k \in 1..Len(duplicates) : duplicates[k].match_type[1] = "exact"}}

\* C19: the kinds are looked up in the order DOI, ISBN, PMID; the exact
\* matches returned are all of one kind, and no kind is looked up after an
\* earlier kind has matched.
C19_StopsAtFirstKind ==
    tool = "find_duplicates" =>
        /\ \A a, b \in 1..Len(lookups) :
               (a < b /\ lookups[b][1] = "search_items")
                   => FieldPos(lookups[a][2]) < FieldPos(lookups[b][2])
        /\ Cardinality(MatchedKinds) <= 1
        /\ \A m \in MatchedKinds, s \in SearchedKinds : FieldPos(s) <= FieldPos(m)

\* The part of C19 that holds: the lookups are made in the order DOI, ISBN,
\* PMID, each kind at most once, before any read of the recent items.
C19_FixedOrder ==
    tool = "find_duplicates" =>
        \A a, b \in 1..Len(lookups) :
            a < b =>
                /\ lookups[a][1] = "search_items"
                /\ lookups[b][1] = "search_items"
                       => FieldPos(lookups[a][2]) < FieldPos(lookups[b][2])

----------------------------------------------------------------------------
(* C20: snapshot items with the candidate's normalized title *)

\* The fuzzy comparison was made: no exact match, the recent items read.
FuzzyCompared ==
    /\ FindReturned
    /\ \E c \in 1..Len(lookups) : lookups[c] = <<"get_items">>

\* The items of the snapshot (the first `limit` items of the library) whose
\* title normalizes to the candidate's.
SameTitle ==
    {k \in 1..Len(Take(library, limit)) :
        normalize_title(library[k].data.title) = normalize_title(candidate.title)}

\* The item is in the returned list with score 100.
ReturnedInFull(e) ==
    \E d \in 1..Len(duplicates) :
        duplicates[d].key = e.key /\ duplicates[d].score = FullScore

\* C20: after a fuzzy comparison, every item of the snapshot whose title
\* normalizes to the same string as the candidate's is in the returned list
\* with score 100, however many items share that title.
C20_SameTitleReturned ==
    FuzzyCompared => \A k \in SameTitle : ReturnedInFull(library[k])

\* The part of C20 that holds: the last item of the snapshot with the
\* candidate's normalized title is returned with score 100, whatever the
\* scores of the other titles, and nothing below the threshold is returned.
C20_LastSameTitleReturned ==
    FuzzyCompared =>
        /\ SameTitle # {} => ReturnedInFull(library[LastIndex(SameTitle)])
        /\ \A d \in 1..Len(duplicates) : duplicates[d].score >= TITLE_MATCH_THRESHOLD

----------------------------------------------------------------------------
(* Two runs of batch_import_from_pubmed on one library *)

\* The runs.  Each awaits batch_check_identifiers and batch_save_items; at an
\* await the other run can be scheduled, and the code takes no lock.
RunIds == {"r1", "r2"}

\* The body of map_pubmed_to_zotero (mappers/pubmed_mapper.py): the title,
\* the DOI when the article has one, the PMID in the extra field.  The body
\* sets no "collections".
map_pubmed_to_zotero(article) ==
    [title |-> article.title,
     DOI |-> IF Truthy(article.doi) THEN article.doi ELSE <<>>,
     pmid |-> IF Truthy(article.pmid) THEN article.pmid ELSE NoneV,
     collections |-> <<>>]

\* The items the library holds more after a successful write of the buffer.
SavedItems(buffer) ==
    [k \in 1..Len(buffer) |->
        [key |-> "new", DOI |-> buffer[k].item.DOI, pmid |-> buffer[k].item.pmid]]

\* The articles the racing runs have fetched.
RaceArticles ==
    { Article(<<"1">>, <<"X">>, <<"t">>, "list"),
      Article(<<"2">>, <<>>, <<"t">>, "list") }

\* The PMIDs a run asked for: those of its articles.
ArticlePmids(arts) == [k \in 1..Len(arts) |-> arts[k].pmid]

\* A mutant of ConsultedIdentifiers: the loop looks at the library as it is
\* when the record is processed.
ConsultedIdentifiers_Refreshed(snapshot, lib, arts) ==
    batch_check_identifiers(lib, ArticlePmids(arts), ArticleDoiList(arts))

\* The identifiers the per-record loop tests a record against:
\* existing_identifiers as the check before the loop left it, whatever the
\* library holds by now.
ConsultedIdentifiers(snapshot, lib, arts) == snapshot

\* The locals of a run that is about to check for duplicates.
NewRun(arts) ==
    [pc |-> "check", articles |-> arts, existing_identifiers |-> NoIdentifiers,
     reads |-> 0, check_failed |-> FALSE, idx |-> 0, items_to_save |-> <<>>,
     result |-> NewBatchImportResult]

\* The duplicate check of run r (skip_duplicates is left at its default).
RaceCheckDuplicates(r) ==
    /\ runs[r].pc = "check"
    /\ \E raised \in BOOLEAN :
          runs' = [runs EXCEPT ![r] =
                     [@ EXCEPT !.pc = "loop", !.idx = 1, !.reads = @ + 1,
                               !.check_failed = raised,
                               !.existing_identifiers =
                                   IF raised THEN NoIdentifiers
                                   ELSE batch_check_identifiers(
                                            library, ArticlePmids(runs[r].articles),
                                            ArticleDoiList(runs[r].articles))]]
    /\ UNCHANGED <<library, writes>>

\* One iteration of the per-record loop of run r.
RaceProcessArticle(r) ==
    /\ runs[r].pc = "loop" /\ runs[r].idx <= Len(runs[r].articles)
    /\ LET run == runs[r]
           article == run.articles[run.idx]
           d == ProcessArticle(mapper, TRUE,
                               ConsultedIdentifiers(run.existing_identifiers,
                                                    library, run.articles),
                               article, FALSE)
       IN  runs' = [runs EXCEPT ![r] =
                      IF d.action = "buffer"
                      THEN [run EXCEPT !.idx = @ + 1,
                                       !.items_to_save =
                                           Append(@, Buffered(run.idx, article,
                                                      map_pubmed_to_zotero(article)))]
                      ELSE [run EXCEPT !.idx = @ + 1,
                                       !.result =
                                           add_item(@, ImportedItem(run.idx, article.pmid,
                                                           article.title, d.action,
                                                           d.detail))]]
    /\ UNCHANGED <<library, writes>>

\* The write of run r and the outcomes of its buffered records.
RaceSaveItems(r) ==
    /\ runs[r].pc = "loop" /\ runs[r].idx > Len(runs[r].articles)
    /\ IF runs[r].items_to_save # <<>>
       THEN \E raised \in BOOLEAN :
               /\ writes' = writes \o batch_save_items(runs[r].items_to_save, raised)
               /\ library' = IF raised THEN library
                             ELSE library \o SavedItems(runs[r].items_to_save)
               /\ runs' = [runs EXCEPT ![r] =
                             [@ EXCEPT !.pc = "done",
                                       !.result = add_items(@, SaveOutcomes(
                                                      runs[r].items_to_save, raised))]]
       ELSE /\ runs' = [runs EXCEPT ![r] = [@ EXCEPT !.pc = "done"]]
            /\ UNCHANGED <<library, writes>>

\* The variables of a single run, which the racing runs do not use.
single_run_vars ==
    <<tool, mapper, batch_available, include_citation_metrics, citation_metrics,
      pc, collection_name, collection_key, skip_duplicates, pmids, pmid_list,
      collections, snapshot_read, validated_collection_key, collection_info,
      articles, existing_identifiers, idx, items_to_save, result, ret, candidate,
      duplicates, lookups, limit, prompt_vars>>

RaceNext ==
    /\ tool = "race"
    /\ \E r \in RunIds :
          \/ RaceCheckDuplicates(r)
          \/ RaceProcessArticle(r)
          \/ RaceSaveItems(r)
    /\ UNCHANGED single_run_vars

\* Two runs past their fetch, with the mapper call going through.
InitRace ==
    /\ tool = "race"
    /\ mapper = "patched"
    /\ batch_available = TRUE
    /\ include_citation_metrics = FALSE
    /\ citation_metrics = "none"
    /\ pc = "done"
    /\ collection_name = NoneV
    /\ collection_key = NoneV
    /\ skip_duplicates = TRUE
    /\ pmids = <<>>
    /\ pmid_list = <<>>
    /\ collections = <<>>
    /\ snapshot_read = FALSE
    /\ validated_collection_key = NoneV
    /\ collection_info = NoCollectionInfo
    /\ library \in Libraries
    /\ articles = <<>>
    /\ existing_identifiers = NoIdentifiers
    /\ idx = 0
    /\ items_to_save = <<>>
    /\ result = NewBatchImportResult
    /\ writes = <<>>
    /\ ret = NoReturn
    /\ runs \in [RunIds -> {NewRun(a) : a \in SeqsUpTo(RaceArticles, MaxRecs) \ {<<>>}}]
    /\ candidate = <<>>
    /\ duplicates = <<>>
    /\ lookups = <<>>
    /\ limit = 0
    /\ ctx = "none"
    /\ options_text = <<>>
    /\ key_to_num = <<>>
    /\ choice = <<>>
    /\ target_collection_key = NoneV

SpecRace == InitRace /\ [][RaceNext]_vars

----------------------------------------------------------------------------
(* C16: the duplicate snapshot of racing runs *)

\* The record is in the identifiers the run got from its check.
InSnapshot(run, article) ==
    \/ article.pmid \in run.existing_identifiers.existing_pmids
    \/ Lower(article.doi) \in run.existing_identifiers.existing_dois

\* The records of a run that were found new: buffered, or in the report with
\* the outcome of the write.
FoundNew(run) ==
    RecsOf(run.items_to_save) \cup RecsOf(run.result.added_items)
        \cup RecsOf(run.result.failed_items)

----------------------------------------------------------------------------
(* C21: the fuzzy candidates *)

\* C21: after a fuzzy comparison the returned list has at most `limit`
\* entries, each a fuzzy-title match with a score of at least the threshold,
\* in the order of falling score.
C21_FuzzyAboveThreshold ==
    FuzzyCompared =>
        /\ Len(duplicates) <= limit
        /\ \A d \in 1..Len(duplicates) :
               /\ duplicates[d].match_type = <<"fuzzy_title">>
               /\ duplicates[d].score >= TITLE_MATCH_THRESHOLD
        /\ \A a, b \in 1..Len(duplicates) :
               a < b => duplicates[a].score >= duplicates[b].score

\* A fuzzy comparison has returned two matches of different scores, the
\* better one first although it is the later item of the snapshot.
C21_Witness ==
    /\ FuzzyCompared
    /\ Len(duplicates) = 2 /\ Len(library) = 2
    /\ duplicates[1].score > duplicates[2].score
    /\ duplicates[1].key = library[2].key
    /\ duplicates[2].key = library[1].key

\* A fuzzy comparison has left out an item of the snapshot whose title
\* scored below the threshold.
C21_WitnessBelow ==
    /\ FuzzyCompared
    /\ Len(library) = 2 /\ Len(duplicates) = 1 /\ limit = GetItemsLimit
    /\ normalize_title(library[1].data.title) # normalize_title(library[2].data.title)

----------------------------------------------------------------------------
(* Properties of a resolution that succeeds *)

\* The validation step resolves the destination: it leaves a collection key
\* for the writes, and in batch_import_from_pubmed the key was looked up (the
\* except branch, which adopts the key without a snapshot, labels itself
\* "validation failed" and is not a resolution).
ResolvesDestination ==
    /\ pc = "resolve"
    /\ Truthy(validated_collection_key')
    /\ tool = "batch" => collection_info'.resolved_from \in {"name", "key"}

\* The key K is the key asked, and the snapshot, when one was read, holds it.
ResolvedByKey(K, cols, was_read) ==
    /\ Truthy(collection_key) /\ K = collection_key
    /\ was_read => \E k \in 1..Len(cols) : cols[k].key = K

\* K is the key of a snapshot collection named as asked, ignoring case.
ResolvedByNameIgnoringCase(K, cols) ==
    \E k \in 1..Len(cols) :
        cols[k].key = K /\ Lower(cols[k].name) = Lower(collection_name)

\* The same with the comparison each tool makes: import_articles also drops
\* leading and trailing whitespace of both names.
ResolvedByNameAsCompared(K, cols) ==
    \E k \in 1..Len(cols) :
        /\ cols[k].key = K
        /\ IF tool = "unified"
           THEN Strip(Lower(cols[k].name)) = Strip(Lower(collection_name))
           ELSE Lower(cols[k].name) = Lower(collection_name)

----------------------------------------------------------------------------
(* The not-found returns on long snapshots *)

\* The most collections a long snapshot holds.
MaxLongCols == 22

\* The periods with which a similar name comes back in a long snapshot.
NamePeriods == 1..3

\* The name asked of the long snapshots, and the two names they hold: one
\* that contains the name asked in another case, one that does not.
AttemptedNames == {<<"a">>, <<"A">>}
SimilarName == <<"x", "A">>
OtherName == <<"b">>

\* The snapshots of n collections with keys "1".."n"; every p-th collection,
\* from offset o, has the similar name.  None is named as asked.
LongSnapshots ==
    { [k \in 1..n |->
          [key |-> <<ToString(k)>>,
           name |-> IF k % p = o THEN SimilarName ELSE OtherName]] :
      n \in 0..MaxLongCols, p \in NamePeriods, o \in 0..2 }

\* The validation block of batch_import_from_pubmed on a long snapshot.
BatchResolveLong == BatchResolveFrom({Returned(sn) : sn \in LongSnapshots})

\* Step 3 of import_articles on a long snapshot.
UnifiedResolveLong == UnifiedResolveFrom(LongSnapshots)

NotFoundNext ==
    BatchStart \/ UnifiedStart \/ BatchResolveLong \/ UnifiedResolveLong

InitNotFound ==
    /\ tool \in {"batch", "unified"}
    /\ mapper = "module"
    /\ batch_available = TRUE
    /\ include_citation_metrics = FALSE
    /\ citation_metrics = "none"
    /\ pc = "start"
    /\ collection_name \in AttemptedNames
    /\ collection_key = NoneV
    /\ skip_duplicates = FALSE
    /\ pmids = IF tool = "batch" THEN <<<<"1">>>> ELSE <<>>
    /\ pmid_list = <<>>
    /\ collections = <<>>
    /\ snapshot_read = FALSE
    /\ validated_collection_key = NoneV
    /\ collection_info = NoCollectionInfo
    /\ library = <<>>
    /\ articles = IF tool = "unified"
                  THEN <<Article(<<"1">>, <<"X">>, <<"t">>, "list")>> ELSE <<>>
    /\ existing_identifiers = NoIdentifiers
    /\ idx = 0
    /\ items_to_save = <<>>
    /\ result = IF tool = "batch" THEN NewBatchImportResult ELSE NewUnifiedResult
    /\ writes = <<>>
    /\ ret = NoReturn
    /\ runs = <<>>
    /\ candidate = <<>>
    /\ duplicates = <<>>
    /\ lookups = <<>>
    /\ limit = 0
    /\ ctx = "none"
    /\ options_text = <<>>
    /\ key_to_num = <<>>
    /\ choice = <<>>
    /\ target_collection_key = NoneV

SpecNotFound == InitNotFound /\ [][NotFoundNext]_vars

\* s is a subsequence of t: the elements of s, in their order, are among
\* those of t in that order.
RECURSIVE IsSubsequence(_, _)
IsSubsequence(s, t) ==
    IF s = <<>> THEN TRUE
    ELSE IF t = <<>> THEN FALSE
    ELSE IF s[1] = t[1] THEN IsSubsequence(Tail(s), Tail(t))
    ELSE IsSubsequence(s, Tail(t))

\* The names of a snapshot, in its order.
NamesOf(cols) == [k \in 1..Len(cols) |-> cols[k].name]

\* The lists of a returned result are as the not-found contract has them: at
\* most 20 available collections, all of the snapshot; at most 5 suggestions,
\* names of the snapshot in its order, each containing the name asked
\* ignoring case.
ListsAsContracted(r, cols) ==
    /\ Len(r.available) <= 20
    /\ IsSubsequence(r.available, cols)
    /\ Len(r.similar) <= 5
    /\ IsSubsequence(r.similar, NamesOf(cols))
    /\ \A j \in 1..Len(r.similar) :
          Contains(Lower(r.similar[j]), Lower(collection_name))

\* C23: when the validation step has a snapshot in which no collection is
\* named as asked, the run ends there with the not-found result, no write
\* made, at most 20 available collections listed, and at most 5 suggestions,
\* all names of the snapshot that contain the name asked ignoring case, in
\* the order of the snapshot.
C23_NotFoundAlwaysReturned ==
    [][(pc = "resolve" /\ Truthy(collection_name) /\ snapshot_read')
          => /\ pc' = "done" /\ writes' = <<>>
             /\ ret'.error = "collection not found"
             /\ ListsAsContracted(ret', collections')]_vars

\* Every not-found result that is returned has its lists as contracted, and
\* the run has made no write.
C23_ReturnedListsBounded ==
    (pc = "done" /\ ret.error = "collection not found")
        => (writes = <<>> /\ ListsAsContracted(ret, collections))

\* A not-found result whose lists were cut: more than 20 collections in the
\* snapshot, more than 5 of them with a similar name.
C23_Witness ==
    /\ tool = "batch" /\ pc = "done" /\ ret.error = "collection not found"
    /\ Len(collections) > 20
    /\ Len(similar_collections_Uncut(collections, collection_name)) > 5
    /\ Len(ret.similar) = 5

----------------------------------------------------------------------------
(* infrastructure/mappers/pubmed_mapper.py: map_pubmed_to_zotero and
   infrastructure/mcp/unified_import_tools.py: _unified_article_to_zotero,
   as functions of the keys of the article dict *)

\* The keys of an article whose value is a string; "journal" stands for the
\* fields both mappers copy under `if article.get(k):` (journal, volume,
\* issue, pages, language).
StringKeys == {"title", "abstract", "journal", "doi", "pmid", "year"}

\* The keys whose value is a list.
ListKeys == {"authors", "keywords"}

\* A string value: "" or a text.  A list value: a list of one entry, or the
\* key present with the value None.
StringValues == {<<>>, <<"v">>}
ListValues == {<<"l">>, NoneV}

\* The article dicts: any of the keys may be absent.
SourceRecords ==
    UNION { [S -> StringValues \cup ListValues] : S \in SUBSET (StringKeys \cup ListKeys) }

\* The dicts in which every key holds a value of its type.
WellTyped(article) ==
    \A k \in DOMAIN article :
        IF k \in StringKeys THEN article[k] \in StringValues
        ELSE article[k] \in ListValues

\* dict.get(k, default)
Get(d, k, default) == IF k \in DOMAIN d THEN d[k] ELSE default

\* Iterating over the value of a list key raises on None.
IterationRaises(article, k) == k \in DOMAIN article /\ article[k] = NoneV

\* map_pubmed_to_zotero raises on `for kw in keywords` when the key holds
\* None; `if not creators and article.get("authors")` skips an authors of
\* None.
PubmedMapperRaises(article) == IterationRaises(article, "keywords")

\* The title and the abstract of map_pubmed_to_zotero: article.get(k, "").
PubmedDefault == <<>>

\* A mutant of map_pubmed_to_zotero_dict: every key of the item is set,
\* absent fields as "".
map_pubmed_to_zotero_Placeholders(article) ==
    [f \in {"itemType", "title", "abstractNote", "creators",
            "publicationTitle", "date", "DOI", "extra", "tags"} |->
        CASE f = "itemType" -> <<"journalArticle">>
          [] f = "title" -> Get(article, "title", PubmedDefault)
          [] f = "abstractNote" -> Get(article, "abstract", PubmedDefault)
          [] f = "creators" -> Get(article, "authors", <<>>)
          [] f = "publicationTitle" -> Get(article, "journal", <<>>)
          [] f = "date" -> Get(article, "year", <<>>)
          [] f = "DOI" -> Get(article, "doi", <<>>)
          [] f = "extra" -> IF Truthy(Get(article, "pmid", NoneV))
                            THEN <<"PMID: ">> \o article["pmid"] ELSE <<>>
          [] OTHER -> Get(article, "keywords", <<>>)]

\* map_pubmed_to_zotero: itemType, title and abstractNote are always set;
\* every other key only when the article's field is truthy.
map_pubmed_to_zotero_dict(article) ==
    LET has(k) == Truthy(Get(article, k, NoneV))
        keys == {"itemType", "title", "abstractNote"}
                  \cup (IF has("authors") THEN {"creators"} ELSE {})
                  \cup (IF has("journal") THEN {"publicationTitle"} ELSE {})
                  \cup (IF has("year") THEN {"date"} ELSE {})
                  \cup (IF has("doi") THEN {"DOI"} ELSE {})
                  \cup (IF has("pmid") THEN {"extra"} ELSE {})
                  \cup (IF has("keywords") THEN {"tags"} ELSE {})
    IN  [f \in keys |->
            CASE f = "itemType" -> <<"journalArticle">>
              [] f = "title" -> Get(article, "title", PubmedDefault)
              [] f = "abstractNote" -> Get(article, "abstract", PubmedDefault)
              [] f = "creators" -> article["authors"]
              [] f = "publicationTitle" -> article["journal"]
              [] f = "date" -> article["year"]
              [] f = "DOI" -> article["doi"]
              [] f = "extra" -> <<"PMID: ">> \o article["pmid"]
              [] OTHER -> article["keywords"]]

\* _unified_article_to_zotero raises on `for author in authors` and on
\* article.get("keywords", [])[:10] when the key holds None.
UnifiedDictMapperRaises(article) ==
    IterationRaises(article, "authors") \/ IterationRaises(article, "keywords")

\* article.get("title", "Unknown Title")
UnknownTitle == <<"Unknown Title">>

\* _unified_article_to_zotero: itemType and title are always set; the url is
\* made from the DOI, or else from the PMID; every other key only when the
\* article's field is truthy.
unified_article_to_zotero_dict(article) ==
    LET has(k) == Truthy(Get(article, k, NoneV))
        keys == {"itemType", "title"}
                  \cup (IF has("authors") THEN {"creators"} ELSE {})
                  \cup (IF has("doi") THEN {"DOI"} ELSE {})
                  \cup (IF has("pmid") THEN {"extra"} ELSE {})
                  \cup (IF has("abstract") THEN {"abstractNote"} ELSE {})
                  \cup (IF has("journal") THEN {"publicationTitle"} ELSE {})
                  \cup (IF has("year") THEN {"date"} ELSE {})
                  \cup (IF has("doi") \/ has("pmid") THEN {"url"} ELSE {})
                  \cup (IF has("keywords") THEN {"tags"} ELSE {})
    IN  [f \in keys |->
            CASE f = "itemType" -> <<"journalArticle">>
              [] f = "title" -> Get(article, "title", UnknownTitle)
              [] f = "creators" -> article["authors"]
              [] f = "DOI" -> article["doi"]
              [] f = "extra" -> <<"PMID: ">> \o article["pmid"]
              [] f = "abstractNote" -> article["abstract"]
              [] f = "publicationTitle" -> article["journal"]
              [] f = "date" -> article["year"]
              [] f = "url" -> IF has("doi")
                              THEN <<"https://doi.org/">> \o article["doi"]
                              ELSE <<"https://pubmed.ncbi.nlm.nih.gov/">>
                                       \o article["pmid"] \o <<"/">>
              [] OTHER -> article["keywords"]]

\* One call of a mapper on articles[1]: the item is returned (kept in
\* items_to_save), or the exception leaves the mapper.
MapArticle ==
    /\ tool \in {"map_pubmed_to_zotero", "_unified_article_to_zotero"}
    /\ pc = "start"
    /\ LET raises == IF tool = "map_pubmed_to_zotero"
                     THEN PubmedMapperRaises(articles[1])
                     ELSE UnifiedDictMapperRaises(articles[1])
       IN  IF raises
           THEN ret' = ErrorReturn("exception") /\ items_to_save' = items_to_save
           ELSE /\ ret' = ret
                /\ items_to_save' =
                      <<IF tool = "map_pubmed_to_zotero"
                        THEN map_pubmed_to_zotero_dict(articles[1])
                        ELSE unified_article_to_zotero_dict(articles[1])>>
    /\ pc' = "done"
    /\ UNCHANGED <<runs, candidate, duplicates, lookups, limit, prompt_vars>>
    /\ UNCHANGED <<tool, mapper, batch_available, include_citation_metrics,
                   citation_metrics, collection_name, collection_key,
                   skip_duplicates, pmids, pmid_list, collections, snapshot_read,
                   validated_collection_key, collection_info, library, articles,
                   existing_identifiers, idx, result, writes>>

MapperNext == MapArticle

InitMapper ==
    /\ tool \in {"map_pubmed_to_zotero", "_unified_article_to_zotero"}
    /\ mapper = "module"
    /\ batch_available = TRUE
    /\ include_citation_metrics = FALSE
    /\ citation_metrics = "none"
    /\ pc = "start"
    /\ collection_name = NoneV
    /\ collection_key = NoneV
    /\ skip_duplicates = FALSE
    /\ pmids = <<>>
    /\ pmid_list = <<>>
    /\ collections = <<>>
    /\ snapshot_read = FALSE
    /\ validated_collection_key = NoneV
    /\ collection_info = NoCollectionInfo
    /\ library = <<>>
    /\ \E a \in {s \in SourceRecords : WellTyped(s)} : articles = <<a>>
    /\ existing_identifiers = NoIdentifiers
    /\ idx = 0
    /\ items_to_save = <<>>
    /\ result = NewBatchImportResult
    /\ writes = <<>>
    /\ ret = NoReturn
    /\ runs = <<>>
    /\ candidate = <<>>
    /\ duplicates = <<>>
    /\ lookups = <<>>
    /\ limit = 0
    /\ ctx = "none"
    /\ options_text = <<>>
    /\ key_to_num = <<>>
    /\ choice = <<>>
    /\ target_collection_key = NoneV

SpecMapper == InitMapper /\ [][MapperNext]_vars

----------------------------------------------------------------------------
(* Properties of the mappers *)

\* The keys of the article an item key is made from.
Feeds(f) ==
    CASE f = "title" -> {"title"}
      [] f = "abstractNote" -> {"abstract"}
      [] f = "creators" -> {"authors"}
      [] f = "publicationTitle" -> {"journal"}
      [] f = "date" -> {"year"}
      [] f = "DOI" -> {"doi"}
      [] f = "extra" -> {"pmid"}
      [] f = "url" -> {"doi", "pmid"}
      [] OTHER -> {"keywords"}

\* The item key f was set although the article has none of the keys it is
\* made from.
SetFromNothing(it, article, f) ==
    f \in DOMAIN it \ {"itemType"} /\ Feeds(f) \cap DOMAIN article = {}

\* The mapper has returned the item `it` for the article.
Mapped == pc = "done" /\ items_to_save # <<>>

\* No key of the article holds None: fields are absent or have a value.
FieldsAbsentOrValued(article) == \A k \in DOMAIN article : article[k] # NoneV

\* C24 as stated: a mapper does not fail on an article whose fields are
\* absent or valued, and no key of the item is set from a field the article
\* does not have.
C24_AbsentFieldsOmitted ==
    (tool \in {"map_pubmed_to_zotero", "_unified_article_to_zotero"} /\ pc = "done")
        => /\ FieldsAbsentOrValued(articles[1]) => Mapped
           /\ Mapped => \A f \in DOMAIN items_to_save[1] :
                            ~SetFromNothing(items_to_save[1], articles[1], f)

\* C24: a mapper does not fail on an article whose fields are absent or
\* valued; the only keys of the item set from a field the article does not
\* have are the title ("" in map_pubmed_to_zotero, "Unknown Title" in
\* _unified_article_to_zotero) and the abstractNote of map_pubmed_to_zotero
\* (""); every other key of the item comes from a field that is present and
\* not empty, and is not empty itself.
C24_OnlyTitleAndAbstractDefaulted ==
    (tool \in {"map_pubmed_to_zotero", "_unified_article_to_zotero"} /\ pc = "done")
        => /\ FieldsAbsentOrValued(articles[1]) => Mapped
           /\ Mapped =>
                LET it == items_to_save[1]
                    a == articles[1]
                IN  \A f \in DOMAIN it \ {"itemType"} :
                       /\ SetFromNothing(it, a, f) =>
                             \/ f = "title"
                                  /\ it[f] = IF tool = "map_pubmed_to_zotero"
                                             THEN <<>> ELSE UnknownTitle
                             \/ f = "abstractNote" /\ tool = "map_pubmed_to_zotero"
                                  /\ it[f] = <<>>
                       /\ f \notin {"title", "abstractNote"} =>
                             /\ it[f] # <<>>
                             /\ \E k \in Feeds(f) \cap DOMAIN a : Truthy(a[k])
                       /\ (f = "abstractNote" /\ tool = "_unified_article_to_zotero")
                             => it[f] # <<>>

\* C24 witness: map_pubmed_to_zotero has mapped an article that has a title
\* and nothing else of abstract, doi and journal: the item has the title, an
\* abstractNote of "", and neither DOI nor publicationTitle.
C24_Witness ==
    /\ tool = "map_pubmed_to_zotero" /\ Mapped
    /\ DOMAIN articles[1] = {"title"} /\ articles[1]["title"] = <<"v">>
    /\ DOMAIN items_to_save[1] = {"itemType", "title", "abstractNote"}
    /\ items_to_save[1]["abstractNote"] = <<>>

----------------------------------------------------------------------------
(* _normalize_title applied to its own result *)

\* The longest title normalized.
MaxTitleLen == 4

\* The characters of the titles: a capital, a small letter, a punctuation
\* mark, a blank, a tab.
TitleChars == {"A", "a", "!", " ", "\t"}

\* The titles: None, "", and every string of the characters.
Titles == {NoneV} \cup SeqsUpTo(TitleChars, MaxTitleLen)

\* _normalize_title(title) on the title of the record.
NormalizeTitle ==
    /\ tool = "_normalize_title" /\ pc = "start"
    /\ result' = <<normalize_title(candidate.title)>>
    /\ pc' = "once"
    /\ UNCHANGED <<runs, candidate, duplicates, lookups, limit, prompt_vars>>
    /\ UNCHANGED <<tool, mapper, batch_available, include_citation_metrics,
                   citation_metrics, collection_name, collection_key,
                   skip_duplicates, pmids, pmid_list, collections, snapshot_read,
                   validated_collection_key, collection_info, library, articles,
                   existing_identifiers, idx, items_to_save, writes, ret>>

\* _normalize_title on the value the first call returned.
NormalizeAgain ==
    /\ tool = "_normalize_title" /\ pc = "once"
    /\ result' = Append(result, normalize_title(result[1]))
    /\ pc' = "done"
    /\ UNCHANGED <<runs, candidate, duplicates, lookups, limit, prompt_vars>>
    /\ UNCHANGED <<tool, mapper, batch_available, include_citation_metrics,
                   citation_metrics, collection_name, collection_key,
                   skip_duplicates, pmids, pmid_list, collections, snapshot_read,
                   validated_collection_key, collection_info, library, articles,
                   existing_identifiers, idx, items_to_save, writes, ret>>

NormalizeNext == NormalizeTitle \/ NormalizeAgain

InitNormalize ==
    /\ tool = "_normalize_title"
    /\ mapper = "module"
    /\ batch_available = TRUE
    /\ include_citation_metrics = FALSE
    /\ citation_metrics = "none"
    /\ pc = "start"
    /\ collection_name = NoneV
    /\ collection_key = NoneV
    /\ skip_duplicates = FALSE
    /\ pmids = <<>>
    /\ pmid_list = <<>>
    /\ collections = <<>>
    /\ snapshot_read = FALSE
    /\ validated_collection_key = NoneV
    /\ collection_info = NoCollectionInfo
    /\ library = <<>>
    /\ articles = <<>>
    /\ existing_identifiers = NoIdentifiers
    /\ idx = 0
    /\ items_to_save = <<>>
    /\ result = <<>>
    /\ writes = <<>>
    /\ ret = NoReturn
    /\ runs = <<>>
    /\ \E t \in Titles : candidate = [title |-> t]
    /\ duplicates = <<>>
    /\ lookups = <<>>
    /\ limit = 0
    /\ ctx = "none"
    /\ options_text = <<>>
    /\ key_to_num = <<>>
    /\ choice = <<>>
    /\ target_collection_key = NoneV

SpecNormalize == InitNormalize /\ [][NormalizeNext]_vars

\* C25: normalize_title applied to its own result returns that result, for
\* every title, None and "" included.
C25_NormalizeIdempotent ==
    (tool = "_normalize_title" /\ pc = "done") => result[2] = result[1]

\* C25 witness: a title with a capital, punctuation and runs of whitespace
\* was changed by the first call and left alone by the second.
C25_Witness ==
    /\ tool = "_normalize_title" /\ pc = "done"
    /\ candidate.title = <<"A", "!", "\t", "a">>
    /\ result = <<<<"a", " ", "a">>, <<"a", " ", "a">>>>

\* The first call on a missing or empty title returns "", and so does the
\* second.
C25_WitnessEmpty ==
    /\ tool = "_normalize_title" /\ pc = "done"
    /\ candidate.title = NoneV
    /\ result = <<<<>>, <<>>>>

----------------------------------------------------------------------------
(* infrastructure/mcp/collection_utils.py: format_collection_options and
   num_to_collection_key (interactive_tools.py holds the same two functions
   as _format_collection_options and _num_to_collection_key) *)

\* `suggestions[:3]` and `other_collections[:15]`.
SuggestionsShown == 3
OthersShown == 15

\* key_to_num[key] = num on a dict kept as the list of its entries in
\* insertion order: the entry of the key is replaced, or a new one appended.
DictSet(d, key, num) ==
    IF \E j \in 1..Len(d) : d[j].key = key
    THEN [j \in 1..Len(d) |->
             IF d[j].key = key THEN [key |-> key, num |-> num] ELSE d[j]]
    ELSE Append(d, [key |-> key, num |-> num])

\* The option lines of the entries, numbered from `first`.
Numbered(entries, first) ==
    [j \in 1..Len(entries) |->
        [num |-> first + j - 1, key |-> entries[j].key, name |-> entries[j].name]]

\* key_to_num after the lines were written in their order.
RECURSIVE KeyToNum(_, _)
KeyToNum(lines, d) ==
    IF lines = <<>> THEN d
    ELSE KeyToNum(Tail(lines), DictSet(d, Head(lines).key, Head(lines).num))

\* other_collections = [c for c in collections
\*                      if c.get("key") not in suggested_keys]
OtherCollections(cols, suggested_keys) ==
    Pick(cols, {k \in 1..Len(cols) : cols[k].key \notin suggested_keys}, 1)

\* A mutant of format_collection_options: the numbers of the other
\* collections start again at 1.
format_collection_options_Restart(cols, suggestions) ==
    LET top == Numbered(Take(suggestions, SuggestionsShown), 1)
        suggested_keys == {suggestions[j].key : j \in 1..Len(suggestions)}
        others == Numbered(Take(OtherCollections(cols, suggested_keys), OthersShown), 1)
    IN  [text |-> top \o others, key_to_num |-> KeyToNum(top \o others, <<>>)]

\* format_collection_options: the first 3 suggestions take the numbers from 1;
\* the collections whose key is not the key of any suggestion follow, the
\* first 15 of them; every line written puts its key and number in key_to_num.
\* `text` keeps the numbered lines (the line of option 0 is always there).
format_collection_options(cols, suggestions) ==
    LET top == Numbered(Take(suggestions, SuggestionsShown), 1)
        suggested_keys == {suggestions[j].key : j \in 1..Len(suggestions)}
        others == Numbered(Take(OtherCollections(cols, suggested_keys), OthersShown),
                           Len(top) + 1)
    IN  [text |-> top \o others, key_to_num |-> KeyToNum(top \o others, <<>>)]

\* The value of a decimal digit.
DigitValue(c) ==
    CASE c = "0" -> 0 [] c = "1" -> 1 [] c = "2" -> 2 [] c = "3" -> 3
      [] c = "4" -> 4 [] c = "5" -> 5 [] c = "6" -> 6 [] c = "7" -> 7
      [] c = "8" -> 8 [] OTHER -> 9

IsDecimal(s) ==
    s # <<>> /\ \A k \in 1..Len(s) :
                    s[k] \in {"0", "1", "2", "3", "4", "5", "6", "7", "8", "9"}

RECURSIVE DecimalValue(_)
DecimalValue(s) ==
    IF s = <<>> THEN 0
    ELSE 10 * DecimalValue(SubSeq(s, 1, Len(s) - 1)) + DigitValue(s[Len(s)])

\* int(s): a sign or none, then decimal digits; ValueError otherwise.
ParseInt(s) ==
    LET signed == s # <<>> /\ s[1] \in {"+", "-"}
        digits == IF signed THEN Tail(s) ELSE s
    IN  IF ~IsDecimal(digits) THEN [ok |-> FALSE, value |-> 0]
        ELSE [ok |-> TRUE,
              value |-> IF signed /\ s[1] = "-"
                        THEN 0 - DecimalValue(digits) ELSE DecimalValue(digits)]

\* num_to_collection_key: None for 0, for a number no entry has and for an
\* input that is no integer; otherwise the key of the first entry with the
\* number.
num_to_collection_key(num_str, d) ==
    LET n == ParseInt(Strip(num_str))
        f == FirstIndex({j \in 1..Len(d) : d[j].num = n.value})
    IN  IF ~n.ok \/ n.value = 0 \/ f = 0 THEN NoneV ELSE d[f].key

----------------------------------------------------------------------------
(* infrastructure/mcp/interactive_tools.py: interactive_save *)

\* The most collections of the library of an interactive save.
MaxMenuCols == 2

\* The collections get_collections() returns: keys "1".."n".
MenuSnapshot(n) ==
    [k \in 1..n |-> [key |-> <<ToString(k)>>, name |-> <<"c", ToString(k)>>]]

\* _suggest_collections: a ranked list of collections of the snapshot, none
\* twice; here m neighbours from position s on, the last of them first.
SuggestionLists(cols, most) ==
    UNION { { [j \in 1..m |-> cols[s + m - j]] : s \in 1..(Len(cols) - m + 1) } :
            m \in 0..(IF Len(cols) < most THEN Len(cols) ELSE most) }

\* The items after step 0: with or without a title and creators.
InteractiveItems == [title : {<<>>, <<"A">>}, creators : {<<>>, <<"c">>}]

\* _validate_item on a journalArticle: title and creators are required.
validate_item(it) == Truthy(it.title) /\ it.creators # <<>>

\* What ctx.elicit gives at the duplicate prompt: it raises, or the user
\* accepts with an answer, accepts without data, declines or cancels.
ConfirmAnswers == {<<"y", "e", "s">>, <<"Y">>, <<"n", "o">>, <<>>}
ElicitRaised == [action |-> "raised", data |-> FALSE, value |-> <<>>]
ElicitResult(action, data, value) == [action |-> action, data |-> data, value |-> value]
ConfirmOutcomes ==
    {ElicitRaised, ElicitResult("accept", FALSE, <<>>),
     ElicitResult("decline", FALSE, <<>>), ElicitResult("cancel", FALSE, <<>>)}
      \cup {ElicitResult("accept", TRUE, a) : a \in ConfirmAnswers}

\* data.confirm.lower() in ("yes", "y", ...)
IsYes(answer) == Lower(answer) \in {<<"y", "e", "s">>, <<"y">>}

\* What the user enters at the collection prompt.
MenuChoices ==
    {<<"0">>, <<"1">>, <<" ", "2", " ">>, <<"3">>, <<"1", "8">>, <<"1", "9">>,
     <<"-", "1">>, <<"a">>, <<>>}
SelectOutcomes ==
    {ElicitRaised, ElicitResult("accept", FALSE, <<>>),
     ElicitResult("decline", FALSE, <<>>), ElicitResult("cancel", FALSE, <<>>)}
      \cup {ElicitResult("accept", TRUE, c) : c \in MenuChoices}

\* The result dict of interactive_save.
InteractiveReturn(success, message) ==
    [kind |-> "result", success |-> success, error |-> message,
     report |-> FALSE, warning |-> FALSE, available |-> <<>>, similar |-> <<>>]

\* Step 2 after _find_duplicates: `if duplicates and ctx:` the user is asked;
\* an accepted answer other than yes and a decline or cancel return; an
\* exception of ctx.elicit is logged and the run goes on, as it does when
\* there is no ctx or the accepted result has no data.
duplicate_prompt(dups, context, outcome) ==
    IF dups = <<>> \/ context = "none" THEN "proceed"
    ELSE IF outcome.action = "raised" THEN "proceed"
    ELSE IF outcome.action = "accept" /\ outcome.data
    THEN IF IsYes(outcome.value) THEN "proceed" ELSE "cancelled - duplicate exists"
    ELSE IF outcome.action \in {"decline", "cancel"} THEN "cancelled by user"
    ELSE "proceed"

interactive_vars ==
    <<mapper, batch_available, include_citation_metrics, citation_metrics,
      collection_name, collection_key, skip_duplicates, pmids, pmid_list,
      snapshot_read, validated_collection_key, collection_info, library,
      articles, existing_identifiers, idx, items_to_save, result, runs, limit>>

\* Steps 0 and 1: the item is built and validated.
InteractiveValidate ==
    /\ tool = "interactive_save" /\ pc = "start"
    /\ IF validate_item(candidate)
       THEN pc' = "duplicates" /\ ret' = ret
       ELSE pc' = "done" /\ ret' = InteractiveReturn(FALSE, "validation failed")
    /\ UNCHANGED <<tool, candidate, duplicates, lookups, collections, writes>>
    /\ UNCHANGED prompt_vars
    /\ UNCHANGED interactive_vars

\* Step 2: _find_duplicates returns its list or raises (the outer handler
\* returns "Save failed"); with duplicates and a ctx the user is asked.
InteractiveCheckDuplicates ==
    /\ tool = "interactive_save" /\ pc = "duplicates"
    /\ \E found \in {Raised, Returned(<<>>),
                     Returned(<<Duplicate(<<"E1">>, <<"a">>, <<"exact", "DOI">>, FullScore)>>)} :
          IF ~found.ok
          THEN /\ pc' = "done" /\ ret' = InteractiveReturn(FALSE, "save failed")
               /\ UNCHANGED <<duplicates, lookups>>
          ELSE /\ duplicates' = found.value
               /\ \E outcome \in ConfirmOutcomes :
                     LET asked == found.value # <<>> /\ ctx # "none"
                         shown == IF ctx = "elicits" THEN outcome ELSE ElicitRaised
                         next == duplicate_prompt(found.value, ctx, shown)
                     IN  /\ lookups' = IF asked
                                       THEN Append(lookups, [call |-> "elicit_duplicate",
                                                             outcome |-> shown])
                                       ELSE lookups
                         /\ IF next = "proceed"
                            THEN pc' = "select" /\ ret' = ret
                            ELSE pc' = "done" /\ ret' = InteractiveReturn(FALSE, next)
    /\ UNCHANGED <<tool, candidate, collections, writes>>
    /\ UNCHANGED prompt_vars
    /\ UNCHANGED interactive_vars

\* Step 3: unless skip_collection_prompt or without a ctx, the collections
\* are read, formatted and shown; the choice is turned into a key.  Any
\* exception in the step (get_collections, ctx.elicit) is logged and the item
\* is saved without a collection; a decline or cancel returns.
InteractiveSelectCollection ==
    /\ tool = "interactive_save" /\ pc = "select"
    /\ \E skip_collection_prompt \in BOOLEAN :
          IF skip_collection_prompt \/ ctx = "none"
          THEN /\ pc' = "save" /\ ret' = ret
               /\ UNCHANGED <<collections, lookups>>
               /\ UNCHANGED prompt_vars
          ELSE \E got \in {Raised} \cup {Returned(MenuSnapshot(n)) : n \in 0..MaxMenuCols} :
                  IF ~got.ok
                  THEN /\ pc' = "save" /\ ret' = ret
                       /\ UNCHANGED <<collections, lookups>>
                       /\ UNCHANGED prompt_vars
                  ELSE \E suggestions \in SuggestionLists(got.value, MaxMenuCols),
                          outcome \in SelectOutcomes :
                          LET menu == format_collection_options(got.value, suggestions)
                              shown == IF ctx = "elicits" THEN outcome ELSE ElicitRaised
                              chosen == shown.action = "accept" /\ shown.data
                          IN  /\ collections' = got.value
                              /\ options_text' = menu.text
                              /\ key_to_num' = menu.key_to_num
                              /\ lookups' = Append(lookups, [call |-> "elicit_collection",
                                                             outcome |-> shown])
                              /\ choice' = IF chosen THEN Strip(shown.value) ELSE choice
                              /\ target_collection_key' =
                                    IF chosen
                                    THEN num_to_collection_key(Strip(shown.value),
                                                               menu.key_to_num)
                                    ELSE target_collection_key
                              /\ ctx' = ctx
                              /\ IF shown.action \in {"decline", "cancel"}
                                 THEN /\ pc' = "done"
                                      /\ ret' = InteractiveReturn(FALSE, "cancelled by user")
                                 ELSE pc' = "save" /\ ret' = ret
    /\ UNCHANGED <<tool, candidate, duplicates, writes>>
    /\ UNCHANGED interactive_vars

\* Step 4: save_items([item]), the item in the collection chosen; when the
\* call raises the outer handler returns "Save failed".
InteractiveSaveItem ==
    /\ tool = "interactive_save" /\ pc = "save"
    /\ \E raised \in BOOLEAN :
          /\ writes' = Append(writes,
                 [items |-> <<[title |-> candidate.title,
                               collections |-> IF Truthy(target_collection_key)
                                               THEN <<target_collection_key>>
                                               ELSE <<>>]>>,
                  raised |-> raised])
          /\ ret' = IF raised THEN InteractiveReturn(FALSE, "save failed")
                    ELSE InteractiveReturn(TRUE, "saved")
    /\ pc' = "done"
    /\ UNCHANGED <<tool, candidate, duplicates, lookups, collections>>
    /\ UNCHANGED prompt_vars
    /\ UNCHANGED interactive_vars

InteractiveNext ==
    \/ InteractiveValidate
    \/ InteractiveCheckDuplicates
    \/ InteractiveSelectCollection
    \/ InteractiveSaveItem

InitInteractive ==
    /\ tool = "interactive_save"
    /\ mapper = "module"
    /\ batch_available = TRUE
    /\ include_citation_metrics = FALSE
    /\ citation_metrics = "none"
    /\ pc = "start"
    /\ collection_name = NoneV
    /\ collection_key = NoneV
    /\ skip_duplicates = FALSE
    /\ pmids = <<>>
    /\ pmid_list = <<>>
    /\ collections = <<>>
    /\ snapshot_read = FALSE
    /\ validated_collection_key = NoneV
    /\ collection_info = NoCollectionInfo
    /\ library = <<>>
    /\ articles = <<>>
    /\ existing_identifiers = NoIdentifiers
    /\ idx = 0
    /\ items_to_save = <<>>
    /\ result = <<>>
    /\ writes = <<>>
    /\ ret = NoReturn
    /\ runs = <<>>
    /\ candidate \in InteractiveItems
    /\ duplicates = <<>>
    /\ lookups = <<>>
    /\ limit = 0
    /\ ctx \in {"none", "elicits", "unsupported"}
    /\ options_text = <<>>
    /\ key_to_num = <<>>
    /\ choice = <<>>
    /\ target_collection_key = NoneV

SpecInteractive == InitInteractive /\ [][InteractiveNext]_vars

----------------------------------------------------------------------------
(* Properties of the duplicate confirmation *)

\* The user was shown the duplicate prompt and answered yes.
ConfirmedAnyway ==
    \E j \in 1..Len(lookups) :
        /\ lookups[j].call = "elicit_duplicate"
        /\ lookups[j].outcome.action = "accept"
        /\ lookups[j].outcome.data
        /\ IsYes(lookups[j].outcome.value)

\* C26: in interactive_save, when the duplicate check has found a match,
\* save_items is called only after the user has answered yes to the
\* duplicate prompt.
C26_SavedOnlyAfterConfirmation ==
    (tool = "interactive_save" /\ duplicates # <<>> /\ writes # <<>>)
        => ConfirmedAnyway

\* Once the user was asked about a duplicate and answered, declined or
\* cancelled, the item is saved only after a yes.
C26_AnswerIsObeyed ==
    (tool = "interactive_save" /\ writes # <<>>
        /\ \E j \in 1..Len(lookups) :
              /\ lookups[j].call = "elicit_duplicate"
              /\ \/ lookups[j].outcome.action \in {"decline", "cancel"}
                 \/ lookups[j].outcome.action = "accept" /\ lookups[j].outcome.data)
        => ConfirmedAnyway

\* A duplicate was found, the user answered yes, and the item was saved.
C26_Witness ==
    /\ tool = "interactive_save" /\ pc = "done"
    /\ duplicates # <<>> /\ ConfirmedAnyway
    /\ Len(writes) = 1 /\ ret.success

----------------------------------------------------------------------------
(* Properties of a name that is not unique, and of a key given with a name *)

\* The collections of the snapshot that carry the name asked, ignoring case.
Carrying(cols) ==
    {k \in 1..Len(cols) : Lower(cols[k].name) = Lower(collection_name)}

\* The validation step reads a snapshot in which the name asked, the only
\* designation given, is carried by two collections or more.
AmbiguousName ==
    /\ pc = "resolve"
    /\ Truthy(collection_name) /\ ~Truthy(collection_key)
    /\ snapshot_read'
    /\ Cardinality(Carrying(collections')) >= 2

\* C27: when the name asked is carried by two or more collections of the
\* snapshot, the validation step does not settle on one of them: the run
\* ends there, failed, and nothing is written.
C27_AmbiguousNameNotResolved ==
    [][AmbiguousName =>
          /\ ~Truthy(validated_collection_key')
          /\ pc' = "done" /\ ~ret'.success /\ writes' = <<>>]_vars

\* What the code does with such a name: the first collection in snapshot
\* order that carries it becomes the destination and the run goes on.
C27_FirstCarrierTaken ==
    [][AmbiguousName =>
          /\ \E k \in Carrying(collections') :
                /\ validated_collection_key' = collections'[k].key
                /\ \A j \in Carrying(collections') : k <= j
          /\ pc' # "done"]_vars

\* The validation step settles on a destination for a run that was given
\* both a key and a name, with the snapshot at hand.
KeyAndNameResolved ==
    /\ pc = "resolve"
    /\ Truthy(collection_name) /\ Truthy(collection_key)
    /\ snapshot_read'
    /\ Truthy(validated_collection_key')

\* C28: when a key and a name are both given, the destination the validation
\* step settles on is a collection of the snapshot that has the key and
\* carries the name (ignoring case).
C28_KeyAndNameAgree ==
    [][KeyAndNameResolved =>
          \E k \in Carrying(collections') :
              collections'[k].key = validated_collection_key']_vars

\* What the code does: with a key given the name is not looked at, and the
\* destination is the key.
C28_KeyAloneDecides ==
    [][KeyAndNameResolved =>
          /\ validated_collection_key' = collection_key
          /\ \E k \in 1..Len(collections') : collections'[k].key = collection_key]_vars

----------------------------------------------------------------------------
(* Properties of a duplicate check that fails *)

\* The call of the duplicate check to the library raised.
IdentifierCheckFailed ==
    \E j \in 1..Len(lookups) :
        lookups[j].call = "check_identifiers" /\ lookups[j].raised

\* A record that is in the library was handed to the external write.
WroteExistingRecord ==
    \E r \in WrittenRecs : r \in 1..Len(articles) /\ InLibrary(articles[r])

\* C29: a run with duplicate skipping whose identifier check failed and which
\* wrote a record that is in the library does not return success (neither
\* result has an entry that tells the check was not made).
C29_FailedCheckNotSilent ==
    (tool \in {"batch", "unified"} /\ pc = "done" /\ skip_duplicates
        /\ IdentifierCheckFailed /\ WroteExistingRecord)
        => ~ret.success

\* When the identifier check of batch_import_from_pubmed returned, no record
\* that is in the library is written.
C29_CheckedRunWritesNoDuplicate ==
    (tool = "batch" /\ skip_duplicates /\ ~IdentifierCheckFailed)
        => ~WroteExistingRecord

----------------------------------------------------------------------------
(* format_collection_options followed by num_to_collection_key *)

\* The most collections of a menu, and the most suggestions.
MaxMenuLong == 20
MaxSuggestions == 4

\* The menu is formatted for the snapshot and the suggestions.
MenuFormat ==
    /\ tool = "format_collection_options" /\ pc = "start"
    /\ LET menu == format_collection_options(collections, library)
       IN  options_text' = menu.text /\ key_to_num' = menu.key_to_num
    /\ pc' = "shown"
    /\ UNCHANGED <<tool, candidate, duplicates, lookups, collections, writes, ret,
                   ctx, choice, target_collection_key>>
    /\ UNCHANGED interactive_vars

\* The user's entry is turned into a key.
MenuChoose ==
    /\ tool = "format_collection_options" /\ pc = "shown"
    /\ \E entry \in MenuChoices :
          /\ choice' = entry
          /\ target_collection_key' = num_to_collection_key(entry, key_to_num)
    /\ pc' = "done"
    /\ UNCHANGED <<tool, candidate, duplicates, lookups, collections, writes, ret,
                   ctx, options_text, key_to_num>>
    /\ UNCHANGED interactive_vars

MenuNext == MenuFormat \/ MenuChoose

\* The argument `suggestions`: dicts with the key and the name of collections
\* of the snapshot, none twice, at most `most` of them; here m neighbours
\* from position s on, the last of them first.
SuggestionArgs(cols, most) ==
    UNION { { [j \in 1..m |-> cols[s + m - j]] : s \in 1..(Len(cols) - m + 1) } :
            m \in 0..(IF Len(cols) < most THEN Len(cols) ELSE most) }

\* `library` holds the suggestions given with the snapshot.
InitMenu ==
    /\ tool = "format_collection_options"
    /\ mapper = "module"
    /\ batch_available = TRUE
    /\ include_citation_metrics = FALSE
    /\ citation_metrics = "none"
    /\ pc = "start"
    /\ collection_name = NoneV
    /\ collection_key = NoneV
    /\ skip_duplicates = FALSE
    /\ pmids = <<>>
    /\ pmid_list = <<>>
    /\ \E n \in 0..MaxMenuLong :
          /\ collections = MenuSnapshot(n)
          /\ library \in SuggestionArgs(MenuSnapshot(n), MaxSuggestions)
    /\ snapshot_read = FALSE
    /\ validated_collection_key = NoneV
    /\ collection_info = NoCollectionInfo
    /\ articles = <<>>
    /\ existing_identifiers = NoIdentifiers
    /\ idx = 0
    /\ items_to_save = <<>>
    /\ result = <<>>
    /\ writes = <<>>
    /\ ret = NoReturn
    /\ runs = <<>>
    /\ candidate = <<>>
    /\ duplicates = <<>>
    /\ lookups = <<>>
    /\ limit = 0
    /\ ctx = "none"
    /\ options_text = <<>>
    /\ key_to_num = <<>>
    /\ choice = <<>>
    /\ target_collection_key = NoneV

SpecMenu == InitMenu /\ [][MenuNext]_vars

\* The lines of the menu that show the collection with the key.
LinesOf(key) == {j \in 1..Len(options_text) : options_text[j].key = key}

\* The collections that are not among the first 3 suggestions, in snapshot
\* order.
Remaining ==
    LET top == Take(library, 3)
    IN  OtherCollections(collections, {top[j].key : j \in 1..Len(top)})

\* The collection is left out by the cap: it is a remaining collection past
\* the 15th.
CutByCap(key) ==
    \E j \in 1..Len(Remaining) : j > 15 /\ Remaining[j].key = key

\* Every collection is on exactly one line, or on none when the cap cut it.
EveryCollectionOffered ==
    \A k \in 1..Len(collections) :
        IF CutByCap(collections[k].key)
        THEN LinesOf(collections[k].key) = {}
        ELSE Cardinality(LinesOf(collections[k].key)) = 1

\* The entry made is the number n.
Entered(n) == ParseInt(Strip(choice)).ok /\ ParseInt(Strip(choice)).value = n

\* The key the entry was turned into is the one beside the number entered;
\* 0, a number on no line and an entry that is no number give None.
ChoiceMapsBack ==
    IF \E j \in 1..Len(options_text) : Entered(options_text[j].num)
    THEN \A j \in 1..Len(options_text) :
            Entered(options_text[j].num) => target_collection_key = options_text[j].key
    ELSE target_collection_key = NoneV

\* C30: once the menu is shown every collection of the snapshot is on exactly
\* one numbered line (one of the first 3 suggestions or one of the first 15
\* remaining collections) unless the 15-entry cap cut it, the numbers on the
\* lines are 1, 2, ... without gap or repetition, and the key an entry is
\* turned into is the key on the line of that number, None for 0 and for
\* every other entry.
C30_FaithfulMenu ==
    (tool = "format_collection_options" /\ pc # "start")
        => /\ EveryCollectionOffered
           /\ \A j \in 1..Len(options_text) : options_text[j].num = j
           /\ pc = "done" => ChoiceMapsBack

\* The numbers of the menu map back: the lines are numbered 1, 2, ..., no
\* collection is on two lines, and the key an entry is turned into is the
\* key on the line of that number, None otherwise.
C30_NumbersMapBack ==
    (tool = "format_collection_options" /\ pc # "start")
        => /\ \A j \in 1..Len(options_text) :
                 options_text[j].num = j /\ LinesOf(options_text[j].key) = {j}
           /\ pc = "done" => ChoiceMapsBack

\* A menu of 3 suggestions and 15 other collections, with two more cut by
\* the cap; the entry 18 was turned into the key on line 18.
C30_Witness ==
    /\ tool = "format_collection_options" /\ pc = "done"
    /\ Len(collections) = 20 /\ Len(library) = 3 /\ Len(options_text) = 18
    /\ choice = <<"1", "8">>
    /\ target_collection_key = options_text[18].key

====
